---- MODULE Spec2Model ----
(***************************************************************************)
(* OpenCarly: the history trimmer (engine/trimmer), the session store and  *)
(* the chat.message hook (session/session, index), and the context bracket *)
(* resolution (engine/brackets), as state machines.                        *)
(*                                                                         *)
(* Strings are TLA+ strings; Len, SubSeq and \o act on them as on          *)
(* sequences of characters, so the marker search and the regular           *)
(* expression replace of the trimmer are computed character by character.  *)
(***************************************************************************)
EXTENDS Integers, Sequences, FiniteSets, TLC

VARIABLES
    messages,     \* output.messages: the transcript handed to messages.transform
    trimConfig,   \* state.config.context.trimming
    files,        \* sessions/<id>.json on disk, per session id
    sessions,     \* state.sessions: the in-memory map of the plugin
    clock,        \* wall clock, in hours
    bracketIn,    \* the arguments of a getBracket call
    bracketOut,   \* the BracketResult it returned
    statsFile,    \* stats.json on disk
    heap,         \* the manifest objects in memory, by the object that owns them
    lastMatch,    \* state.lastPrompt and state.lastMatch of each session
    carlyConfig,  \* state.config besides the manifest: commands, context, rules
    loadedRules,  \* what loadRules gave the last system.transform hook
    activeSessionID  \* state.activeSessionID: the session of the last chat.message

vars == <<messages, trimConfig, files, sessions, clock, bracketIn, bracketOut,
          statsFile, heap, lastMatch, carlyConfig, loadedRules, activeSessionID>>

trimVars == <<messages, trimConfig>>
sessionVars == <<files, sessions, clock>>
bracketVars == <<bracketIn, bracketOut>>
statsVars == <<statsFile>>
matchVars == <<heap, lastMatch, carlyConfig, loadedRules, activeSessionID>>

-----------------------------------------------------------------------------
(* Bounds of the model *)

MaxMsgs == 3        \* longest transcript
MaxPreserve == 2    \* largest preserveLastN
MaxPrompts == 3     \* largest prompt counter a session reaches
MaxTicks == 3       \* times the wall clock advances (by 12 hours each)
MaxThreshold == 3   \* largest bracket threshold
MaxCount == 4       \* largest prompt count handed to getBracket
MaxDefaultCount == 52  \* largest prompt count under the default thresholds
MaxStatPrompts == 2    \* most prompts a session's token stats count

-----------------------------------------------------------------------------
(* Helpers on numbers and strings *)

Max(a, b) == IF a >= b THEN a ELSE b

SetMin(S) == CHOOSE x \in S : \A y \in S : x <= y

\* String.prototype.indexOf(pat, from), 1-based; 0 when pat does not occur
IndexOf(s, pat, from) ==
    LET cands == { i \in from..(Len(s) - Len(pat) + 1) :
                     SubSeq(s, i, i + Len(pat) - 1) = pat }
    IN  IF cands = {} THEN 0 ELSE SetMin(cands)

\* String.prototype.includes
Includes(s, pat) == IndexOf(s, pat, 1) # 0

IsSpace(c) == c \in {" ", "\t", "\n", "\r"}

\* String.prototype.trim
StrTrim(s) ==
    LET keep == { i \in 1..Len(s) : ~IsSpace(SubSeq(s, i, i)) }
    IN  IF keep = {} THEN ""
        ELSE SubSeq(s, SetMin(keep), CHOOSE j \in keep : \A k \in keep : k <= j)

\* the number of pieces text.split("\n") yields
RECURSIVE CountNewlines(_, _)
CountNewlines(s, from) ==
    LET i == IndexOf(s, "\n", from)
    IN  IF i = 0 THEN 0 ELSE 1 + CountNewlines(s, i + 1)

-----------------------------------------------------------------------------
(* engine/trimmer: constants *)

CarlyStart == "<carly-rules>"
CarlyEnd == "</carly-rules>"

MIN_TRIM_TOKENS == 100

EPHEMERAL_TOOLS == {"bash", "glob", "grep"}

TrimModes == {"conservative", "moderate", "aggressive"}

\* mutant: the thresholds of conservative and aggressive change places
TRIM_THRESHOLDS_Swapped(mode) ==
    CASE mode = "conservative" -> 60
      [] mode = "moderate" -> 40
      [] mode = "aggressive" -> 20
      [] OTHER -> 40

TRIM_THRESHOLDS(mode) ==
    CASE mode = "conservative" -> 20
      [] mode = "moderate" -> 40
      [] mode = "aggressive" -> 60
      [] OTHER -> 40

\* estimateTokens on a length: Math.ceil(length / 4)
TokensOfLength(n) == (n + 3) \div 4

estimateTokens(text) == TokensOfLength(Len(text))

-----------------------------------------------------------------------------
(* Transcript values.  A tool output that was never trimmed is kept by its   *)
(* length and line count (its text plays no role); a trimmed one holds the   *)
(* summary string.  compacted = 0 stands for an absent time.compacted.       *)

RawOutput(chars, lines) == [chars |-> chars, lines |-> lines, summary |-> ""]

NoOutput == RawOutput(0, 1)

TextPart(t) ==
    [type |-> "text", text |-> t, tool |-> "", status |-> "", filePath |-> "",
     command |-> "", pattern |-> "", title |-> "", output |-> NoOutput, compacted |-> 0]

ToolPart(tool, status, filePath, command, pattern, title, output, compacted) ==
    [type |-> "tool", text |-> "", tool |-> tool, status |-> status,
     filePath |-> filePath, command |-> command, pattern |-> pattern,
     title |-> title, output |-> output, compacted |-> compacted]

Message(role, parts) == [role |-> role, parts |-> parts]

ReadFile(filePath, status, chars, compacted) ==
    ToolPart("read", status, filePath, "", "", filePath, RawOutput(chars, 40), compacted)

\* The records the host may append to the transcript.  Output lengths sit on
\* both sides of the token classes: 396 characters are 99 tokens, 397 are 100,
\* 2004 are 501 and 8004 are 2001.  One read was compacted by the host already.
MsgPool ==
    { Message("assistant",
              <<TextPart("<carly-rules>be brief</carly-rules> go on"),
                ToolPart("bash", "completed", "", "npm test", "", "npm test",
                         RawOutput(8004, 300), 0)>>),
      Message("assistant",
              <<TextPart("<carly-<carly-rules>a</carly-rules>rules>b</carly-rules>"),
                ReadFile("a.py", "completed", 2004, 0)>>),
      Message("assistant",
              <<TextPart("x <carly-rules> y "),
                ReadFile("a.py", "completed", 397, 0),
                ReadFile("b.py", "completed", 2004, 0)>>),
      Message("assistant",
              <<TextPart("reading"), ReadFile("a.py", "pending", 0, 0)>>),
      Message("assistant",
              <<ReadFile("a.py", "error", 0, 0),
                ReadFile("a.py", "completed", 2004, 1),
                ReadFile("a.py", "completed", 396, 0)>>),
      Message("assistant",
              <<ToolPart("edit", "completed", "a.py", "", "", "a.py", RawOutput(20, 1), 0)>>) }

TrimConfigs ==
    [enabled : BOOLEAN, mode : TrimModes, preserveLastN : 1..MaxPreserve]

ZeroStats ==
    [partsTrimmed |-> 0, tokensSaved |-> 0, carlyBlocksStripped |-> 0, carlyTokensSaved |-> 0]

-----------------------------------------------------------------------------
(* engine/trimmer: TrimContext.  messageIndex is 0-based as in the code;   *)
(* record mi of a transcript m is m[mi + 1].                               *)

\* TrimContext.constructor: the catalogue of file operations
\* the positions <<i, j>> of the parts of a transcript (1-based)
PartPositions(msgs) ==
    UNION { { <<i, j>> : j \in 1..Len(msgs[i].parts) } : i \in 1..Len(msgs) }

FileOps(msgs) ==
    { [filePath |-> msgs[ij[1]].parts[ij[2]].filePath, messageIndex |-> ij[1] - 1,
       op |-> msgs[ij[1]].parts[ij[2]].tool] :
        ij \in { p \in PartPositions(msgs) :
                  LET part == msgs[p[1]].parts[p[2]]
                  IN  /\ part.type = "tool"
                      /\ part.status \in {"completed", "error"}
                      /\ part.filePath # ""
                      /\ part.tool \in {"read", "edit", "write"} } }

\* mutant: looks for a read in an earlier record
hasNewerRead_Earlier(ctx, filePath, messageIndex) ==
    \E o \in ctx : /\ o.filePath = filePath
                   /\ o.op = "read"
                   /\ o.messageIndex < messageIndex

hasNewerRead(ctx, filePath, messageIndex) ==
    \E o \in ctx : /\ o.filePath = filePath
                   /\ o.op = "read"
                   /\ o.messageIndex > messageIndex

wasEditedAfter(ctx, filePath, messageIndex) ==
    \E o \in ctx : /\ o.filePath = filePath
                   /\ o.op \in {"edit", "write"}
                   /\ o.messageIndex > messageIndex

-----------------------------------------------------------------------------
(* engine/trimmer: scoring *)

OutputLength(part) == part.output.chars

\* mutant: the age is counted from the first record, 20 points a record
ScoreFactors_AgeFromStart(toolPart, messageIndex, totalMessages, ctx) ==
    LET tokenEstimate == TokensOfLength(OutputLength(toolPart))
        turnsAgo == messageIndex
        superseded ==
            IF /\ toolPart.tool = "read"
               /\ toolPart.filePath # ""
               /\ hasNewerRead(ctx, toolPart.filePath, messageIndex)
            THEN 60 ELSE 0
        edited ==
            IF /\ toolPart.tool = "read"
               /\ toolPart.filePath # ""
               /\ wasEditedAfter(ctx, toolPart.filePath, messageIndex)
            THEN 50 ELSE 0
        size == IF tokenEstimate > 2000 THEN 15
                ELSE IF tokenEstimate > 500 THEN 8 ELSE 0
        ephemeral == IF toolPart.tool \in EPHEMERAL_TOOLS THEN 10 ELSE 0
    IN  Max(0, 100 - turnsAgo * 20 - superseded - edited - size - ephemeral)

\* the score of a completed, uncompacted part of MIN_TRIM_TOKENS tokens or more
ScoreFactors(toolPart, messageIndex, totalMessages, ctx) ==
    LET tokenEstimate == TokensOfLength(OutputLength(toolPart))
        turnsAgo == totalMessages - 1 - messageIndex
        superseded ==
            IF /\ toolPart.tool = "read"
               /\ toolPart.filePath # ""
               /\ hasNewerRead(ctx, toolPart.filePath, messageIndex)
            THEN 60 ELSE 0
        edited ==
            IF /\ toolPart.tool = "read"
               /\ toolPart.filePath # ""
               /\ wasEditedAfter(ctx, toolPart.filePath, messageIndex)
            THEN 50 ELSE 0
        size == IF tokenEstimate > 2000 THEN 15
                ELSE IF tokenEstimate > 500 THEN 8 ELSE 0
        ephemeral == IF toolPart.tool \in EPHEMERAL_TOOLS THEN 10 ELSE 0
    IN  Max(0, 100 - turnsAgo * 6 - superseded - edited - size - ephemeral)

\* mutant: an output of exactly MIN_TRIM_TOKENS tokens counts as tiny
scoreToolPart_TinyInclusive(toolPart, messageIndex, totalMessages, ctx) ==
    IF toolPart.status # "completed" THEN 200
    ELSE IF toolPart.compacted # 0 THEN 200
    ELSE IF TokensOfLength(OutputLength(toolPart)) <= MIN_TRIM_TOKENS THEN 200
    ELSE ScoreFactors(toolPart, messageIndex, totalMessages, ctx)

\* mutant: a part that carries a compacted timestamp is scored again
scoreToolPart_NoCompactedCheck(toolPart, messageIndex, totalMessages, ctx) ==
    IF toolPart.status # "completed" THEN 200
    ELSE IF TokensOfLength(OutputLength(toolPart)) < MIN_TRIM_TOKENS THEN 200
    ELSE ScoreFactors(toolPart, messageIndex, totalMessages, ctx)

scoreToolPart(toolPart, messageIndex, totalMessages, ctx) ==
    IF toolPart.status # "completed" THEN 200
    ELSE IF toolPart.compacted # 0 THEN 200
    ELSE IF TokensOfLength(OutputLength(toolPart)) < MIN_TRIM_TOKENS THEN 200
    ELSE ScoreFactors(toolPart, messageIndex, totalMessages, ctx)

-----------------------------------------------------------------------------
(* engine/trimmer: the summary that replaces a trimmed output *)

OrElse(s, dflt) == IF s = "" THEN dflt ELSE s

buildTrimSummary(toolPart, tokensSaved) ==
    LET saved == ToString(tokensSaved) IN
    IF toolPart.tool = "read" THEN
        "[Trimmed by OpenCarly] Read " \o OrElse(toolPart.filePath, "unknown file")
          \o " (" \o ToString(toolPart.output.lines) \o " lines, ~" \o saved
          \o " tokens saved)\n" \o "Re-read this file if its contents are needed."
    ELSE IF toolPart.tool = "bash" THEN
        LET command == OrElse(toolPart.command, "unknown command")
            shortCmd == IF Len(command) > 80
                        THEN SubSeq(command, 1, 77) \o "..." ELSE command
        IN  "[Trimmed by OpenCarly] Ran: " \o shortCmd \o " (~" \o saved
              \o " tokens saved)\n" \o "Re-run this command if output is needed."
    ELSE IF toolPart.tool \in {"glob", "grep"} THEN
        "[Trimmed by OpenCarly] " \o toolPart.tool \o ": " \o toolPart.pattern
          \o " (~" \o saved \o " tokens saved)\n"
          \o "Re-run this search if results are needed."
    ELSE
        "[Trimmed by OpenCarly] " \o OrElse(toolPart.title, toolPart.tool)
          \o " (~" \o saved \o " tokens saved)\n" \o "Tool output trimmed from history."

SummaryOutput(summary) ==
    [chars |-> Len(summary), lines |-> 1 + CountNewlines(summary, 1), summary |-> summary]

-----------------------------------------------------------------------------
(* engine/trimmer: stripping <carly-rules> blocks from a text *)

\* text.replace(/<carly-rules>[\s\S]*?<\/carly-rules>/g, "") from position from on:
\* one left-to-right pass, each match running from a start marker to the nearest
\* end marker after it, the search resuming after the match
RECURSIVE ReplaceCarlyBlocks(_, _)
ReplaceCarlyBlocks(text, from) ==
    LET i == IndexOf(text, CarlyStart, from)
        j == IF i = 0 THEN 0 ELSE IndexOf(text, CarlyEnd, i + Len(CarlyStart))
    IN  IF i = 0 \/ j = 0 THEN SubSeq(text, from, Len(text))
        ELSE SubSeq(text, from, i - 1) \o ReplaceCarlyBlocks(text, j + Len(CarlyEnd))

\* the text a text part holds after the strip step
StripText(text) ==
    IF Includes(text, CarlyStart) THEN StrTrim(ReplaceCarlyBlocks(text, 1)) ELSE text

-----------------------------------------------------------------------------
(* engine/trimmer: trimMessageHistory *)

\* mutant: the tail is one record short
protectedStart_OffByOne(msgs, config) == Max(0, Len(msgs) - config.preserveLastN + 1)

protectedStart(msgs, config) == Max(0, Len(msgs) - config.preserveLastN)

\* mutant: the protected tail is not skipped
Trims_NoTailCheck(msgs, config, mi, part) ==
    /\ part.type = "tool"
    /\ scoreToolPart(part, mi, Len(msgs), FileOps(msgs)) < TRIM_THRESHOLDS(config.mode)

\* whether the loop body replaces the output of a part of record mi
Trims(msgs, config, mi, part) ==
    /\ part.type = "tool"
    /\ ~(mi >= protectedStart(msgs, config))
    /\ scoreToolPart(part, mi, Len(msgs), FileOps(msgs)) < TRIM_THRESHOLDS(config.mode)

\* one part after the loop body
TrimPart(msgs, config, now, mi, part) ==
    IF part.type = "text" THEN [part EXCEPT !.text = StripText(part.text)]
    ELSE IF Trims(msgs, config, mi, part)
    THEN [part EXCEPT
            !.output = SummaryOutput(
                buildTrimSummary(part, TokensOfLength(OutputLength(part)))),
            !.compacted = now]
    ELSE part

\* the transcript as trimMessageHistory leaves it
TrimmedMessages(msgs, config, now) ==
    IF ~config.enabled THEN msgs
    ELSE [i \in 1..Len(msgs) |->
            [msgs[i] EXCEPT !.parts =
                [j \in 1..Len(msgs[i].parts) |->
                    TrimPart(msgs, config, now, i - 1, msgs[i].parts[j])]]]

\* what one part adds to the TrimStats
PartStats(msgs, config, mi, part) ==
    IF part.type = "text" THEN
        IF Includes(part.text, CarlyStart) /\ StripText(part.text) # part.text
        THEN [ZeroStats EXCEPT
                !.carlyBlocksStripped = 1,
                !.carlyTokensSaved =
                    Max(0, estimateTokens(part.text) - estimateTokens(StripText(part.text)))]
        ELSE ZeroStats
    ELSE IF Trims(msgs, config, mi, part) THEN
        LET tokensBefore == TokensOfLength(OutputLength(part))
            tokensAfter == estimateTokens(buildTrimSummary(part, tokensBefore))
        IN  [ZeroStats EXCEPT
                !.partsTrimmed = 1,
                !.tokensSaved = Max(0, tokensBefore - tokensAfter)]
    ELSE ZeroStats

AddStats(a, b) ==
    [partsTrimmed |-> a.partsTrimmed + b.partsTrimmed,
     tokensSaved |-> a.tokensSaved + b.tokensSaved,
     carlyBlocksStripped |-> a.carlyBlocksStripped + b.carlyBlocksStripped,
     carlyTokensSaved |-> a.carlyTokensSaved + b.carlyTokensSaved]

RECURSIVE SumParts(_, _, _, _)
SumParts(msgs, config, mi, pi) ==
    IF pi > Len(msgs[mi + 1].parts) THEN ZeroStats
    ELSE AddStats(PartStats(msgs, config, mi, msgs[mi + 1].parts[pi]),
                  SumParts(msgs, config, mi, pi + 1))

RECURSIVE SumMessages(_, _, _)
SumMessages(msgs, config, mi) ==
    IF mi >= Len(msgs) THEN ZeroStats
    ELSE AddStats(SumParts(msgs, config, mi, 1), SumMessages(msgs, config, mi + 1))

\* the TrimStats trimMessageHistory returns
TrimStatsOf(msgs, config) ==
    IF ~config.enabled THEN ZeroStats ELSE SumMessages(msgs, config, 0)

trimMessageHistory(msgs, config, now) ==
    [messages |-> TrimmedMessages(msgs, config, now), stats |-> TrimStatsOf(msgs, config)]


-----------------------------------------------------------------------------
(* The transcript under trimMessageHistory.  Date.now() is the clock, which *)
(* is positive and advances whenever the host appends a record.            *)

SessionInitDefault ==
    /\ files = <<>>
    /\ sessions = <<>>

BracketInitDefault ==
    /\ bracketIn = <<>>
    /\ bracketOut = <<>>

StatsInitDefault == statsFile = <<>>

\* state.activeSessionID before the first chat.message: null
NoActiveSession == ""

MatchInitDefault ==
    /\ heap = <<>>
    /\ lastMatch = <<>>
    /\ carlyConfig = <<>>
    /\ loadedRules = <<>>
    /\ activeSessionID = NoActiveSession

InitTrim ==
    /\ messages = <<>>
    /\ trimConfig \in TrimConfigs
    /\ clock = 1
    /\ SessionInitDefault
    /\ BracketInitDefault
    /\ MatchInitDefault
    /\ StatsInitDefault

\* the host appends a record to the conversation
AppendMessage(m) ==
    /\ Len(messages) < MaxMsgs
    /\ messages' = Append(messages, m)
    /\ clock' = clock + 1
    /\ UNCHANGED <<trimConfig, files, sessions, bracketVars, statsVars, matchVars>>

\* a call trimMessageHistory(output.messages, state.config.context.trimming),
\* which mutates the transcript in place
Trim ==
    /\ messages' = trimMessageHistory(messages, trimConfig, clock).messages
    /\ UNCHANGED <<trimConfig, clock, files, sessions, bracketVars, statsVars, matchVars>>

\* context.json is edited (one setting at a time) and the plugin loads it again
ReloadTrimConfig(c) ==
    /\ Cardinality({ f \in DOMAIN c : c[f] # trimConfig[f] }) = 1
    /\ trimConfig' = c
    /\ UNCHANGED <<messages, clock, files, sessions, bracketVars, statsVars, matchVars>>

NextTrim ==
    \/ \E m \in MsgPool : AppendMessage(m)
    \/ Trim
    \/ \E c \in TrimConfigs : ReloadTrimConfig(c)

SpecTrim == InitTrim /\ [][NextTrim]_vars


-----------------------------------------------------------------------------
(* Claims on trimMessageHistory.  Each is stated on the transcript a call   *)
(* would leave, for every reachable transcript and configuration; positions *)
(* <<i, j>> are 1-based, record index mi of the code is i - 1.              *)

\* the transcript after a call made now
AfterTrim == trimMessageHistory(messages, trimConfig, clock).messages

PartAt(msgs, p) == msgs[p[1]].parts[p[2]]

\* the code's index of a position lies in the protected tail
InTail(p) == p[1] - 1 >= Max(0, Len(messages) - trimConfig.preserveLastN)

\* a part whose output this module's trimmer replaced
IsSummary(part) == part.type = "tool" /\ part.output.summary # ""

\* a call has acted on the transcript and another would change nothing
Settled == trimConfig.enabled /\ AfterTrim = messages

\* a text holds a block: a start marker and, after it, an end marker
HasBlock(text) ==
    \E i \in 1..(Len(text) - Len(CarlyStart) + 1) :
        /\ SubSeq(text, i, i + Len(CarlyStart) - 1) = CarlyStart
        /\ \E j \in (i + Len(CarlyStart))..(Len(text) - Len(CarlyEnd) + 1) :
              SubSeq(text, j, j + Len(CarlyEnd) - 1) = CarlyEnd

\* C1 (as claimed): a second run with the same config on the transcript left by
\* a first run changes nothing: no output, no compacted timestamp, no text.
C1_SecondRunChangesNothing ==
    \A later \in {clock, clock + 1} :
        trimMessageHistory(AfterTrim, trimConfig, later).messages = AfterTrim

C3_TailOutputsNeverTrimmed ==
    /\ \A p \in PartPositions(messages) :
          (/\ PartAt(messages, p).type = "tool"
           /\ p[1] - 1 >= Max(0, Len(messages) - trimConfig.preserveLastN))
          => /\ PartAt(AfterTrim, p).output = PartAt(messages, p).output
             /\ PartAt(AfterTrim, p).compacted = PartAt(messages, p).compacted
    /\ trimConfig.preserveLastN >= Len(messages) =>
          /\ TrimStatsOf(messages, trimConfig).partsTrimmed = 0
          /\ \A p \in PartPositions(messages) :
                PartAt(AfterTrim, p).output = PartAt(messages, p).output

\* C3 witness: trimming is on, the whole transcript lies in the tail, and it
\* holds an output whose score is below the threshold of the mode
C3_Witness ==
    /\ Settled
    /\ Len(messages) = 2
    /\ trimConfig.preserveLastN = 2
    /\ \E p \in PartPositions(messages) :
          /\ PartAt(messages, p).type = "tool"
          /\ scoreToolPart(PartAt(messages, p), p[1] - 1, Len(messages), FileOps(messages))
                < TRIM_THRESHOLDS(trimConfig.mode)

\* the claim's token estimate: the characters divided by four, rounded up
ClaimTokens(chars) == (chars \div 4) + (IF chars % 4 = 0 THEN 0 ELSE 1)

\* a later record holds an operation of kinds ops on the file of part p; an
\* operation is one the transcript records as carried out: a completed or
\* errored tool part with a file path
ClaimLaterOp(p, ops) ==
    \E q \in PartPositions(messages) :
        /\ q[1] > p[1]
        /\ PartAt(messages, q).type = "tool"
        /\ PartAt(messages, q).tool \in ops
        /\ PartAt(messages, q).status \in {"completed", "error"}
        /\ PartAt(messages, q).filePath = PartAt(messages, p).filePath

ClaimIsFileRead(p) ==
    PartAt(messages, p).tool = "read" /\ PartAt(messages, p).filePath # ""

ClaimScore(p) ==
    LET part == PartAt(messages, p)
        tokens == ClaimTokens(part.output.chars)
        raw == 100 - 6 * (Len(messages) - p[1])
                   - (IF ClaimIsFileRead(p) /\ ClaimLaterOp(p, {"read"}) THEN 60 ELSE 0)
                   - (IF ClaimIsFileRead(p) /\ ClaimLaterOp(p, {"edit", "write"})
                      THEN 50 ELSE 0)
                   - (IF tokens > 2000 THEN 15 ELSE IF tokens > 500 THEN 8 ELSE 0)
                   - (IF part.tool \in {"bash", "glob", "grep"} THEN 10 ELSE 0)
    IN  IF raw < 0 THEN 0 ELSE raw

ClaimThreshold ==
    CASE trimConfig.mode = "conservative" -> 20
      [] trimConfig.mode = "moderate" -> 40
      [] trimConfig.mode = "aggressive" -> 60

\* C4: with trimming on, the output of a tool part outside the protected tail
\* is replaced if and only if the part is completed, has no compacted timestamp,
\* its output is at least 100 tokens and its score (100, less 6 per record after
\* it, 60 for a read of a file read again later, 50 for a read of a file edited
\* or written later, 15 or 8 by size, 10 for bash, glob or grep, not below 0) is
\* strictly below the threshold of the mode.
C4_EligibilityRule ==
    trimConfig.enabled =>
        \A p \in PartPositions(messages) :
            (PartAt(messages, p).type = "tool" /\ ~InTail(p)) =>
                ( PartAt(AfterTrim, p).output # PartAt(messages, p).output
                  <=> /\ PartAt(messages, p).status = "completed"
                      /\ PartAt(messages, p).compacted = 0
                      /\ ClaimTokens(PartAt(messages, p).output.chars) >= 100
                      /\ ClaimScore(p) < ClaimThreshold )

\* C4 witness: before the tail of a settled transcript, an output that was
\* replaced and a completed, uncompacted output of 100 tokens or more that was
\* not, its score being too high
C4_Witness ==
    /\ Settled
    /\ \E p, q \in PartPositions(messages) :
          /\ ~InTail(p) /\ ~InTail(q)
          /\ IsSummary(PartAt(messages, p))
          /\ PartAt(messages, q).type = "tool"
          /\ PartAt(messages, q).status = "completed"
          /\ PartAt(messages, q).compacted = 0
          /\ PartAt(messages, q).output.chars >= 397

\* C5: once a tool part carries a compacted timestamp (set by an earlier call or
\* by the host), no later step (a call under any configuration, or an append)
\* changes its output or its timestamp.
C5_CompactionPermanent ==
    [][\A p \in PartPositions(messages) :
          (PartAt(messages, p).type = "tool" /\ PartAt(messages, p).compacted # 0)
          => /\ p[1] <= Len(messages')
             /\ PartAt(messages', p).output = PartAt(messages, p).output
             /\ PartAt(messages', p).compacted = PartAt(messages, p).compacted]_vars

\* C5 witness: two outputs trimmed by calls at different times stand beside a
\* read the host had compacted
C5_Witness ==
    \E p, q, h \in PartPositions(messages) :
        /\ IsSummary(PartAt(messages, p))
        /\ IsSummary(PartAt(messages, q))
        /\ PartAt(messages, p).compacted < PartAt(messages, q).compacted
        /\ PartAt(messages, h).type = "tool"
        /\ PartAt(messages, h).compacted # 0
        /\ ~IsSummary(PartAt(messages, h))

\* C6 (as claimed): with trimming on, after a call no text part of any record
\* holds a <carly-rules> ... </carly-rules> block.
C6_NoBlockLeft ==
    trimConfig.enabled =>
        \A p \in PartPositions(messages) :
            PartAt(messages, p).type = "text" => ~HasBlock(PartAt(AfterTrim, p).text)

\* C7: with trimming on in moderate or aggressive mode, a completed, uncompacted
\* read of a file with an output of 100 tokens or more, in a record before the
\* protected tail, is compacted when a later record (in the tail or not) holds
\* another read of the file, and that later read is left alone when it lies in
\* the tail.  A read counts as occurring when the transcript records it as
\* carried out (completed or errored), as in the file-operation index.
C7_SupersededReadsCompacted ==
    (trimConfig.enabled /\ trimConfig.mode \in {"moderate", "aggressive"}) =>
        \A p, q \in PartPositions(messages) :
            (/\ PartAt(messages, p).type = "tool"
             /\ PartAt(messages, p).tool = "read"
             /\ PartAt(messages, p).status = "completed"
             /\ PartAt(messages, p).compacted = 0
             /\ ClaimTokens(PartAt(messages, p).output.chars) >= 100
             /\ ~InTail(p)
             /\ q[1] > p[1]
             /\ PartAt(messages, q).type = "tool"
             /\ PartAt(messages, q).tool = "read"
             /\ PartAt(messages, q).status \in {"completed", "error"}
             /\ PartAt(messages, q).filePath = PartAt(messages, p).filePath)
            => /\ IsSummary(PartAt(AfterTrim, p))
               /\ PartAt(AfterTrim, p).compacted = clock
               /\ InTail(q) => PartAt(AfterTrim, q) = PartAt(messages, q)

\* C7 witness: in moderate mode an earlier read stands compacted before the
\* tail while a later completed read of the same file, of 100 tokens or more,
\* stands untouched in the tail
C7_Witness ==
    /\ Settled
    /\ trimConfig.mode = "moderate"
    /\ \E p, q \in PartPositions(messages) :
          /\ ~InTail(p)
          /\ IsSummary(PartAt(messages, p))
          /\ PartAt(messages, p).tool = "read"
          /\ q[1] > p[1]
          /\ InTail(q)
          /\ PartAt(messages, q).tool = "read"
          /\ PartAt(messages, q).filePath = PartAt(messages, p).filePath
          /\ PartAt(messages, q).status = "completed"
          /\ PartAt(messages, q).compacted = 0
          /\ PartAt(messages, q).output.chars >= 397


-----------------------------------------------------------------------------
(* JSON values, as JSON.parse hands them over.  A value carries its type in *)
(* t; an object is a function from its keys; a string that holds an ISO     *)
(* timestamp carries the time in hours ("time"), any other string its text. *)

JNull == [t |-> "null"]
JUndefined == [t |-> "undefined"]
JNum(n) == [t |-> "num", v |-> n]
JStr(str) == [t |-> "str", v |-> str]
JTime(hours) == [t |-> "time", v |-> hours]
JBool(b) == [t |-> "bool", v |-> b]
JArr(seq) == [t |-> "arr", v |-> seq]
JObj(f) == [t |-> "obj", v |-> f]

\* o[k], or undefined for a key the object lacks
Field(o, k) == IF k \in DOMAIN o THEN o[k] ELSE JUndefined

IsString(j) == j.t \in {"str", "time"}

\* z.number().default(d) and the like: undefined takes the default
OrDefault(j, dflt) == IF j = JUndefined THEN dflt ELSE j

-----------------------------------------------------------------------------
(* config/schema: the session record and its parts *)

TokenStatsFields ==
    {"tokensSkippedBySelection", "tokensInjected", "tokensTrimmedFromHistory",
     "tokensTrimmedCarlyBlocks", "promptsProcessed", "rulesInjected",
     "baselineTokensPerPrompt"}

ZeroTokenStats == [f \in TokenStatsFields |-> 0]

\* TokenStatsSchema.default({}): every field a number, 0 when missing
TokenStatsValid(j) ==
    \/ j = JUndefined
    \/ /\ j.t = "obj"
       /\ \A f \in TokenStatsFields : OrDefault(Field(j.v, f), JNum(0)).t = "num"

TokenStatsSchema(j) ==
    IF j = JUndefined THEN ZeroTokenStats
    ELSE [f \in TokenStatsFields |-> OrDefault(Field(j.v, f), JNum(0)).v]

NoOverrides == [devmode |-> JNull, domainStates |-> <<>>]

\* SessionOverrideSchema.default({}): devmode and each domain state are a
\* boolean or null
SessionOverrideValid(j) ==
    \/ j = JUndefined
    \/ /\ j.t = "obj"
       /\ OrDefault(Field(j.v, "devmode"), JNull).t \in {"null", "bool"}
       /\ LET ds == OrDefault(Field(j.v, "domainStates"), JObj(<<>>))
          IN  /\ ds.t = "obj"
              /\ \A d \in DOMAIN ds.v : ds.v[d].t \in {"null", "bool"}

SessionOverrideSchema(j) ==
    IF j = JUndefined THEN NoOverrides
    ELSE [devmode |-> OrDefault(Field(j.v, "devmode"), JNull),
          domainStates |-> OrDefault(Field(j.v, "domainStates"), JObj(<<>>)).v]

Invalid == [kind |-> "invalid"]

SessionConfigValid(j) ==
    /\ j.t = "obj"
    /\ \A f \in {"id", "started", "cwd", "label", "lastActivity"} :
           IsString(Field(j.v, f))
    /\ \/ OrDefault(Field(j.v, "title"), JNull) = JNull
       \/ IsString(Field(j.v, "title"))
    /\ OrDefault(Field(j.v, "promptCount"), JNum(0)).t = "num"
    /\ LET af == OrDefault(Field(j.v, "activeFiles"), JArr(<<>>))
       IN  af.t = "arr" /\ \A i \in DOMAIN af.v : IsString(af.v[i])
    /\ SessionOverrideValid(Field(j.v, "overrides"))
    /\ TokenStatsValid(Field(j.v, "tokenStats"))

\* SessionConfigSchema.parse: the session of a JSON value, or Invalid where
\* parse throws; keys the schema does not name are dropped
SessionConfigSchema(j) ==
    IF ~SessionConfigValid(j) THEN Invalid
    ELSE [kind |-> "session",
          id |-> j.v.id.v,
          started |-> j.v.started,
          cwd |-> j.v.cwd.v,
          label |-> j.v.label.v,
          title |-> LET title == OrDefault(Field(j.v, "title"), JNull)
                    IN  IF title = JNull THEN <<>> ELSE <<title.v>>,
          promptCount |-> OrDefault(Field(j.v, "promptCount"), JNum(0)).v,
          lastActivity |-> j.v.lastActivity,
          activeFiles |-> LET af == OrDefault(Field(j.v, "activeFiles"), JArr(<<>>))
                          IN  [i \in DOMAIN af.v |-> af.v[i].v],
          overrides |-> SessionOverrideSchema(Field(j.v, "overrides")),
          tokenStats |-> TokenStatsSchema(Field(j.v, "tokenStats"))]

\* mutant: the prompt count is not written out
SessionToJson_NoPromptCount(session) ==
    JObj([id |-> JStr(session.id),
          started |-> session.started,
          cwd |-> JStr(session.cwd),
          label |-> JStr(session.label),
          title |-> IF session.title = <<>> THEN JNull ELSE JStr(session.title[1]),
          lastActivity |-> session.lastActivity,
          activeFiles |-> JArr([i \in DOMAIN session.activeFiles |-> JStr(session.activeFiles[i])]),
          overrides |-> JObj([devmode |-> session.overrides.devmode,
                              domainStates |-> JObj(session.overrides.domainStates)]),
          tokenStats |-> JObj([f \in TokenStatsFields |-> JNum(session.tokenStats[f])])])

\* JSON.stringify(session, null, 2), read back by JSON.parse
SessionToJson(session) ==
    JObj([id |-> JStr(session.id),
          started |-> session.started,
          cwd |-> JStr(session.cwd),
          label |-> JStr(session.label),
          title |-> IF session.title = <<>> THEN JNull ELSE JStr(session.title[1]),
          promptCount |-> JNum(session.promptCount),
          lastActivity |-> session.lastActivity,
          activeFiles |-> JArr([i \in DOMAIN session.activeFiles |-> JStr(session.activeFiles[i])]),
          overrides |-> JObj([devmode |-> session.overrides.devmode,
                              domainStates |-> JObj(session.overrides.domainStates)]),
          tokenStats |-> JObj([f \in TokenStatsFields |-> JNum(session.tokenStats[f])])])

-----------------------------------------------------------------------------
(* session/session: the session files and the sessions the plugin holds.    *)
(* A file is absent, holds text that is not JSON ("garbage"), or holds a    *)
(* JSON value; a title is <<>> for null and <<t>> for the string t; times   *)
(* are hours.                                                               *)

SessionIds == {"s1", "s2"}

STALE_SESSION_HOURS == 24

Absent == [kind |-> "absent"]
Garbage == [kind |-> "garbage"]
JsonFile(j) == [kind |-> "json", value |-> j]
NotLoaded == [kind |-> "none"]

\* the directory the plugin runs in
directory == "/home/dev/app"

\* the prompts of the turns where the title is not looked at
TurnPrompts == {"", " fix  the bug "}

\* promptText.replace(/\s+/g, " "): each run of white space becomes one space
RECURSIVE CollapseSpaces(_, _)
CollapseSpaces(text, i) ==
    IF i > Len(text) THEN ""
    ELSE IF IsSpace(SubSeq(text, i, i))
         THEN IF i > 1 /\ IsSpace(SubSeq(text, i - 1, i - 1))
              THEN CollapseSpaces(text, i + 1)
              ELSE " " \o CollapseSpaces(text, i + 1)
         ELSE SubSeq(text, i, i) \o CollapseSpaces(text, i + 1)

\* path.basename(cwd) || "unknown"
RECURSIVE Basename(_)
Basename(p) ==
    LET i == IndexOf(p, "/", 1)
    IN  IF i = 0 THEN p ELSE Basename(SubSeq(p, i + 1, Len(p)))

\* mutant: no session file is ever found
loadSession_NeverFinds(fs, sessionId) == Absent

\* loadSession: the session read, or Absent for null
loadSession(fs, sessionId) ==
    IF fs[sessionId].kind = "json" /\ SessionConfigValid(fs[sessionId].value)
    THEN SessionConfigSchema(fs[sessionId].value)
    ELSE Absent

\* loadSession: a file that is there and does not load is unlinked
FilesAfterLoad(fs, sessionId) ==
    IF fs[sessionId] # Absent /\ loadSession(fs, sessionId) = Absent
    THEN [fs EXCEPT ![sessionId] = Absent]
    ELSE fs

createSession(sessionId, now) ==
    [kind |-> "session", id |-> sessionId, started |-> JTime(now),
     cwd |-> directory,
     label |-> IF Basename(directory) = "" THEN "unknown" ELSE Basename(directory),
     title |-> <<>>, promptCount |-> 0, lastActivity |-> JTime(now),
     activeFiles |-> <<>>, overrides |-> NoOverrides, tokenStats |-> ZeroTokenStats]

\* saveSession: the file named by the session's id is written
saveSession(fs, session) ==
    [fs EXCEPT ![session.id] = JsonFile(SessionToJson(session))]

\* mutant: the cleaned prompt is the title whatever its length
updateSessionActivity_NoTruncate(session, promptText, now) ==
    LET count == session.promptCount + 1
        cleaned == StrTrim(CollapseSpaces(promptText, 1))
    IN  [session EXCEPT
            !.promptCount = count,
            !.lastActivity = JTime(now),
            !.title = IF session.title = <<>> /\ promptText # "" /\ count <= 3
                      THEN <<cleaned>>
                      ELSE @]

updateSessionActivity(session, promptText, now) ==
    LET count == session.promptCount + 1
        cleaned == StrTrim(CollapseSpaces(promptText, 1))
    IN  [session EXCEPT
            !.promptCount = count,
            !.lastActivity = JTime(now),
            !.title = IF session.title = <<>> /\ promptText # "" /\ count <= 3
                      THEN IF Len(cleaned) > 60
                           THEN <<SubSeq(cleaned, 1, 57) \o "...">>
                           ELSE <<cleaned>>
                      ELSE @]

\* new Date(session.lastActivity).getTime() < cutoff, for the lastActivity of
\* a JSON value: a timestamp is compared; null, a number or a boolean is a
\* date in 1970, long before any cutoff; undefined and other strings give
\* NaN, which is below nothing
LastActivityBefore(j, cutoff) ==
    LET la == IF j.t = "obj" THEN Field(j.v, "lastActivity") ELSE JUndefined
    IN  CASE la.t = "time" -> la.v < cutoff
          [] la.t \in {"null", "num", "bool"} -> TRUE
          [] OTHER -> FALSE

\* cleanStaleSessions: whether the sweep unlinks a file.  Text that is not
\* JSON makes JSON.parse throw, and the JSON value null makes the property
\* access throw; both end in the catch branch
SweepUnlinks(file, now) ==
    \/ file.kind = "garbage"
    \/ /\ file.kind = "json"
       /\ \/ file.value = JNull
          \/ LastActivityBefore(file.value, now - STALE_SESSION_HOURS)

\* cleanStaleSessions: the files it leaves
cleanStaleSessions(fs, now) ==
    [s \in DOMAIN fs |-> IF SweepUnlinks(fs[s], now) THEN Absent ELSE fs[s]]

\* cleanStaleSessions: the count it returns
cleanStaleSessionsCount(fs, now) ==
    Cardinality({ s \in DOMAIN fs : SweepUnlinks(fs[s], now) })

\* clearAllStats: every session file is unlinked
clearAllStats(fs) == [s \in DOMAIN fs |-> Absent]

-----------------------------------------------------------------------------
(* session/session: the cumulative stats of stats.json *)

CumulativeFields ==
    {"tokensSkippedBySelection", "tokensInjected", "tokensTrimmedFromHistory",
     "tokensTrimmedCarlyBlocks", "totalTokensSaved"}

SummaryNumberFields ==
    {"tokensSaved", "promptsProcessed", "tokensSkippedBySelection",
     "tokensTrimmedFromHistory", "tokensTrimmedCarlyBlocks", "tokensInjected",
     "rulesInjected"}

\* the fields of a summary that have no default in CumulativeSessionSummarySchema
SummaryRequiredNumbers == {"tokensSaved", "promptsProcessed"}

ZeroCumulative == [f \in CumulativeFields |-> 0]

EmptyStats == [version |-> 1, cumulative |-> ZeroCumulative, sessions |-> <<>>]

\* the order in which the sessions directory lists its files
SessionFileOrder == <<"s1", "s2">>

SummaryValid(j) ==
    /\ j.t = "obj"
    /\ IsString(Field(j.v, "sessionId"))
    /\ IsString(Field(j.v, "date"))
    /\ \A f \in SummaryRequiredNumbers : Field(j.v, f).t = "num"
    /\ \A f \in SummaryNumberFields : OrDefault(Field(j.v, f), JNum(0)).t = "num"

CumulativeStatsValid(j) ==
    /\ j.t = "obj"
    /\ OrDefault(Field(j.v, "version"), JNum(1)).t = "num"
    /\ LET c == OrDefault(Field(j.v, "cumulative"), JObj(<<>>))
       IN  /\ c.t = "obj"
           /\ \A f \in CumulativeFields : OrDefault(Field(c.v, f), JNum(0)).t = "num"
    /\ LET ss == OrDefault(Field(j.v, "sessions"), JArr(<<>>))
       IN  ss.t = "arr" /\ \A i \in DOMAIN ss.v : SummaryValid(ss.v[i])

SummarySchema(j) ==
    [f \in SummaryNumberFields \cup {"sessionId", "date"} |->
        IF f = "sessionId" THEN j.v.sessionId.v
        ELSE IF f = "date" THEN j.v.date
        ELSE OrDefault(Field(j.v, f), JNum(0)).v]

\* CumulativeStatsSchema.parse of a value that is valid
CumulativeStatsSchema(j) ==
    LET c == OrDefault(Field(j.v, "cumulative"), JObj(<<>>))
        ss == OrDefault(Field(j.v, "sessions"), JArr(<<>>))
    IN  [version |-> OrDefault(Field(j.v, "version"), JNum(1)).v,
         cumulative |-> [f \in CumulativeFields |-> OrDefault(Field(c.v, f), JNum(0)).v],
         sessions |-> [i \in DOMAIN ss.v |-> SummarySchema(ss.v[i])]]

\* JSON.stringify(stats, null, 2), read back by JSON.parse
StatsToJson(stats) ==
    JObj([version |-> JNum(stats.version),
          cumulative |-> JObj([f \in CumulativeFields |-> JNum(stats.cumulative[f])]),
          sessions |-> JArr([i \in DOMAIN stats.sessions |->
              JObj([f \in SummaryNumberFields \cup {"sessionId", "date"} |->
                  IF f = "sessionId" THEN JStr(stats.sessions[i].sessionId)
                  ELSE IF f = "date" THEN stats.sessions[i].date
                  ELSE JNum(stats.sessions[i][f])])])])

\* JavaScript truthiness of a JSON value
Truthy(j) ==
    CASE j.t \in {"null", "undefined"} -> FALSE
      [] j.t = "bool" -> j.v
      [] j.t = "num" -> j.v # 0
      [] j.t = "str" -> j.v # ""
      [] OTHER -> TRUE

\* readJsonFileSafe: the value, or null when the file is absent or not JSON
readJsonFileSafe(file) == IF file.kind = "json" THEN file.value ELSE JNull

calculateTokensSaved(tokenStats) ==
    tokenStats.tokensSkippedBySelection + tokenStats.tokensTrimmedFromHistory
        + tokenStats.tokensTrimmedCarlyBlocks

RECURSIVE SumField(_, _, _)
SumField(summaries, f, i) ==
    IF i > Len(summaries) THEN 0 ELSE summaries[i][f] + SumField(summaries, f, i + 1)

\* mutant: the totals leave out the last snapshot
calculateCumulativeStats_SkipsLast(summaries) ==
    [f \in CumulativeFields |->
        IF f = "totalTokensSaved"
        THEN SumField(SubSeq(summaries, 1, Len(summaries) - 1), "tokensSaved", 1)
        ELSE SumField(SubSeq(summaries, 1, Len(summaries) - 1), f, 1)]

\* calculateCumulativeStats, and the same sums at the end of updateCumulativeStats
calculateCumulativeStats(summaries) ==
    [f \in CumulativeFields |->
        IF f = "totalTokensSaved" THEN SumField(summaries, "tokensSaved", 1)
        ELSE SumField(summaries, f, 1)]

\* the position of a session id in a list of summaries, 0 if it has none
\* (findIndex, plus one)
FindIndex(summaries, sessionId) ==
    IF \E i \in DOMAIN summaries : summaries[i].sessionId = sessionId
    THEN SetMin({ i \in DOMAIN summaries : summaries[i].sessionId = sessionId })
    ELSE 0

\* Map.set in a map kept as a list: a known key keeps its place and takes the
\* new value, a new key goes last
MapSet(summaries, summary) ==
    LET i == FindIndex(summaries, summary.sessionId)
    IN  IF i = 0 THEN Append(summaries, summary)
        ELSE [summaries EXCEPT ![i] = summary]

RECURSIVE MapOfList(_, _)
MapOfList(summaries, i) ==
    IF i = 0 THEN <<>> ELSE MapSet(MapOfList(summaries, i - 1), summaries[i])

\* the summary loadCumulativeStats makes of a session file it only read with
\* JSON.parse (the token stats objects of the files in this model carry every
\* field)
SummaryOfSessionFile(j) ==
    LET ts == TokenStatsSchema(j.v.tokenStats)
    IN  [sessionId |-> j.v.id.v,
         date |-> Field(j.v, "started"),
         tokensSaved |-> calculateTokensSaved(ts),
         promptsProcessed |-> OrDefault(Field(j.v, "promptCount"), JNum(0)).v,
         tokensSkippedBySelection |-> ts.tokensSkippedBySelection,
         tokensTrimmedFromHistory |-> ts.tokensTrimmedFromHistory,
         tokensTrimmedCarlyBlocks |-> ts.tokensTrimmedCarlyBlocks,
         tokensInjected |-> ts.tokensInjected,
         rulesInjected |-> ts.rulesInjected]

RECURSIVE MergeSessionFiles(_, _, _)
MergeSessionFiles(summaries, fs, i) ==
    IF i > Len(SessionFileOrder) THEN summaries
    ELSE LET j == readJsonFileSafe(fs[SessionFileOrder[i]])
             merge == /\ j.t = "obj"
                      /\ Truthy(Field(j.v, "id"))
                      /\ Truthy(Field(j.v, "tokenStats"))
                      /\ FindIndex(summaries, j.v.id.v) = 0
         IN  MergeSessionFiles(
                 IF merge THEN Append(summaries, SummaryOfSessionFile(j)) ELSE summaries,
                 fs, i + 1)

\* loadCumulativeStats: the snapshots of stats.json, then those of the session
\* files it does not know, and the totals over all of them
loadCumulativeStats(sf, fs) ==
    LET raw == readJsonFileSafe(sf)
        statsJson == IF Truthy(raw) /\ CumulativeStatsValid(raw)
                     THEN CumulativeStatsSchema(raw)
                     ELSE EmptyStats
        merged == MergeSessionFiles(
                      MapOfList(statsJson.sessions, Len(statsJson.sessions)), fs, 1)
    IN  [version |-> statsJson.version,
         cumulative |-> calculateCumulativeStats(merged),
         sessions |-> merged]

\* updateCumulativeStats: the stats it returns and saves
updateCumulativeStats(sf, fs, session) ==
    LET stats == loadCumulativeStats(sf, fs)
        summary == [sessionId |-> session.id,
                    date |-> session.started,
                    tokensSaved |-> calculateTokensSaved(session.tokenStats),
                    promptsProcessed |-> session.tokenStats.promptsProcessed,
                    tokensSkippedBySelection |-> session.tokenStats.tokensSkippedBySelection,
                    tokensTrimmedFromHistory |-> session.tokenStats.tokensTrimmedFromHistory,
                    tokensTrimmedCarlyBlocks |-> session.tokenStats.tokensTrimmedCarlyBlocks,
                    tokensInjected |-> session.tokenStats.tokensInjected,
                    rulesInjected |-> session.tokenStats.rulesInjected]
        summaries == MapSet(stats.sessions, summary)
    IN  [version |-> stats.version,
         cumulative |-> calculateCumulativeStats(summaries),
         sessions |-> summaries]

saveCumulativeStats(stats) == JsonFile(StatsToJson(stats))

-----------------------------------------------------------------------------
(* engine/matcher: keywords, star-commands and paths of a prompt.  A string *)
(* is read character by character; a character is a string of length one.  *)

UpperCase == "ABCDEFGHIJKLMNOPQRSTUVWXYZ"
LowerCase == "abcdefghijklmnopqrstuvwxyz"
Digits == "0123456789"

CharAt(s, i) == SubSeq(s, i, i)
Chars(s) == { CharAt(s, i) : i \in 1..Len(s) }

IsLetter(c) == c \in Chars(UpperCase) \cup Chars(LowerCase)
IsAlnum(c) == IsLetter(c) \/ c \in Chars(Digits)
\* the class \w of a regular expression
IsWordChar(c) == IsAlnum(c) \/ c = "_"

\* String.prototype.toLowerCase
RECURSIVE toLowerCase(_)
toLowerCase(s) ==
    IF s = "" THEN ""
    ELSE LET c == CharAt(s, 1)
             lower == IF c \in Chars(UpperCase)
                      THEN CharAt(LowerCase, IndexOf(UpperCase, c, 1)) ELSE c
         IN  lower \o toLowerCase(SubSeq(s, 2, Len(s)))

\* [...new Set(list)]: the first occurrence of each element, in order
RECURSIVE Unique(_)
Unique(list) ==
    IF list = <<>> THEN <<>>
    ELSE LET before == Unique(SubSeq(list, 1, Len(list) - 1))
             last == list[Len(list)]
         IN  IF \E i \in DOMAIN before : before[i] = last
             THEN before ELSE Append(before, last)

\* the end of the run of word characters that starts at i
WordEnd(s, i) ==
    LET stops == { j \in i..Len(s) : ~IsWordChar(CharAt(s, j)) }
    IN  IF stops = {} THEN Len(s) ELSE SetMin(stops) - 1

\* prompt.matchAll(/\*([a-zA-Z]\w*)/g) from position i on: the identifiers
RECURSIVE StarMatches(_, _)
StarMatches(s, i) ==
    IF i >= Len(s) THEN <<>>
    ELSE IF CharAt(s, i) = "*" /\ IsLetter(CharAt(s, i + 1))
         THEN <<SubSeq(s, i + 1, WordEnd(s, i + 1))>>
                  \o StarMatches(s, WordEnd(s, i + 1) + 1)
         ELSE StarMatches(s, i + 1)

\* the identifiers as written, case kept
detectStarCommands_KeepsCase(prompt) ==
    Unique(StarMatches(prompt, 1))

detectStarCommands(prompt) ==
    LET commands == StarMatches(prompt, 1)
    IN  Unique([i \in DOMAIN commands |-> toLowerCase(commands[i])])

\* a pattern as the regular expression globToRegExp builds: after the
\* escaping every other character stands for itself; "**" is replaced by
\* ".*" and then every "*", the one of ".*" included, by "[^/]*"; "?" by "."
RECURSIVE globToRegExp(_)
globToRegExp(glob) ==
    IF glob = "" THEN <<>>
    ELSE IF Len(glob) >= 2 /\ SubSeq(glob, 1, 2) = "**"
         THEN <<[k |-> "any"], [k |-> "star"]>>
                  \o globToRegExp(SubSeq(glob, 3, Len(glob)))
    ELSE IF CharAt(glob, 1) = "*"
         THEN <<[k |-> "star"]>> \o globToRegExp(SubSeq(glob, 2, Len(glob)))
    ELSE IF CharAt(glob, 1) = "?"
         THEN <<[k |-> "any"]>> \o globToRegExp(SubSeq(glob, 2, Len(glob)))
    ELSE <<[k |-> "lit", c |-> CharAt(glob, 1)]>>
             \o globToRegExp(SubSeq(glob, 2, Len(glob)))

\* regex.test(str) for the anchored expression, from token ti and position si
RECURSIVE RegexTest(_, _, _, _)
RegexTest(regex, ti, str, si) ==
    IF ti > Len(regex) THEN si > Len(str)
    ELSE IF regex[ti].k = "lit"
         THEN /\ si <= Len(str)
              /\ CharAt(str, si) = regex[ti].c
              /\ RegexTest(regex, ti + 1, str, si + 1)
    ELSE IF regex[ti].k = "any"
         THEN /\ si <= Len(str)
              /\ CharAt(str, si) # "\n"
              /\ RegexTest(regex, ti + 1, str, si + 1)
    ELSE \E e \in si..(Len(str) + 1) :
             /\ \A j \in si..(e - 1) : CharAt(str, j) # "/"
             /\ RegexTest(regex, ti + 1, str, e)

isPathMatch(filePath, patterns) ==
    \E i \in DOMAIN patterns :
        RegexTest(globToRegExp(patterns[i]), 1, filePath, 1)

\* prompt.split(/\s+/) from position i on; the empty pieces are left out,
\* extractPathsFromPrompt never keeps one
RECURSIVE SplitSpaces(_, _)
SplitSpaces(s, i) ==
    IF i > Len(s) THEN <<>>
    ELSE IF IsSpace(CharAt(s, i)) THEN SplitSpaces(s, i + 1)
    ELSE LET stops == { j \in i..Len(s) : IsSpace(CharAt(s, j)) }
             e == IF stops = {} THEN Len(s) ELSE SetMin(stops) - 1
         IN  <<SubSeq(s, i, e)>> \o SplitSpaces(s, e + 1)

\* word.replace(/[.,;:!?)$'"]+$/, "").replace(/^['"(]+/, "")
CleanWord(word) ==
    LET trailing == {".", ",", ";", ":", "!", "?", ")", "$", "'", "\""}
        leading == {"'", "\"", "("}
        keepEnd == { i \in 1..Len(word) : CharAt(word, i) \notin trailing }
        cut == IF keepEnd = {} THEN ""
               ELSE SubSeq(word, 1, CHOOSE i \in keepEnd : \A j \in keepEnd : j <= i)
        keepStart == { i \in 1..Len(cut) : CharAt(cut, i) \notin leading }
    IN  IF keepStart = {} THEN "" ELSE SubSeq(cut, SetMin(keepStart), Len(cut))

\* /\.[a-z0-9]{1,4}$/i
HasExtension(word) ==
    \E n \in 1..4 :
        /\ Len(word) >= n + 1
        /\ CharAt(word, Len(word) - n) = "."
        /\ \A j \in (Len(word) - n + 1)..Len(word) : IsAlnum(CharAt(word, j))

extractPathsFromPrompt(prompt) ==
    LET words == SplitSpaces(prompt, 1)
        cleaned == [i \in DOMAIN words |-> CleanWord(words[i])]
        IsPath(w) == Includes(w, "/") \/ HasExtension(w)
    IN  Unique(SelectSeq(cleaned, IsPath))

\* the two matcher modules of the repository: engine/matcher.ts tests a
\* keyword as a substring and knows no paths; the other tests it between
\* non-word characters and matches the paths of a domain
MatcherSubstring == [boundary |-> FALSE, paths |-> FALSE]
MatcherBoundary == [boundary |-> TRUE, paths |-> TRUE]
Matchers == {MatcherSubstring, MatcherBoundary}

\* new RegExp(`(^|\\W)${escaped}($|\\W)`, "i").test(promptLower)
BoundaryTest(promptLower, keywordLower) ==
    \E i \in 1..(Len(promptLower) - Len(keywordLower) + 1) :
        /\ SubSeq(promptLower, i, i + Len(keywordLower) - 1) = keywordLower
        /\ i = 1 \/ ~IsWordChar(CharAt(promptLower, i - 1))
        /\ \/ i + Len(keywordLower) - 1 = Len(promptLower)
           \/ ~IsWordChar(CharAt(promptLower, i + Len(keywordLower)))

findMatchingKeywords(matcher, prompt, keywords) ==
    LET promptLower == toLowerCase(prompt)
        Hit(keyword) ==
            LET keywordLower == StrTrim(toLowerCase(keyword))
            IN  /\ keywordLower # ""
                /\ IF matcher.boundary
                   THEN BoundaryTest(promptLower, keywordLower)
                   ELSE Includes(promptLower, keywordLower)
    IN  SelectSeq(keywords, Hit)

\* the order of Object.entries(manifest.domains)
DomainNames == <<"testing", "git">>

DomainOrder(manifest) ==
    LET Defined(name) == name \in DOMAIN manifest.domains
    IN  SelectSeq(DomainNames, Defined)

EmptyMatchResult ==
    [matched |-> <<>>, matchedPaths |-> <<>>, excluded |-> <<>>,
     globalExcluded |-> <<>>, starCommands |-> <<>>, alwaysOn |-> <<>>]

\* mutant: the exclusions of a domain are tested before its alwaysOn flag
RECURSIVE ProcessDomains_ExcludeFirst(_, _, _, _, _, _)
ProcessDomains_ExcludeFirst(matcher, prompt, manifest, allActiveFiles, names, result) ==
    IF names = <<>> THEN result
    ELSE
      LET name == Head(names)
          domain == manifest.domains[name]
          excludeMatches == findMatchingKeywords(matcher, prompt, domain.exclude)
          next ==
              IF domain.state = "inactive" THEN result
              ELSE IF Len(excludeMatches) > 0
                   THEN [result EXCEPT !.excluded = (name :> excludeMatches) @@ @]
              ELSE IF domain.alwaysOn
                   THEN [result EXCEPT !.alwaysOn = Append(@, name)]
              ELSE result
      IN  ProcessDomains_ExcludeFirst(matcher, prompt, manifest, allActiveFiles,
                                      Tail(names), next)

\* mutant: an exclusion is recorded and the domain is matched all the same
RECURSIVE ProcessDomains_ExcludeRecordedOnly(_, _, _, _, _, _)
ProcessDomains_ExcludeRecordedOnly(matcher, prompt, manifest, allActiveFiles, names, result) ==
    IF names = <<>> THEN result
    ELSE
      LET name == Head(names)
          domain == manifest.domains[name]
          excludeMatches == findMatchingKeywords(matcher, prompt, domain.exclude)
          InPaths(file) == isPathMatch(file, domain.paths)
          pathMatches == SelectSeq(allActiveFiles, InPaths)
          recallMatches == findMatchingKeywords(matcher, prompt, domain.recall)
          noted == IF Len(excludeMatches) > 0
                   THEN [result EXCEPT !.excluded = (name :> excludeMatches) @@ @]
                   ELSE result
          next ==
              IF domain.state = "inactive" THEN result
              ELSE IF domain.alwaysOn
                   THEN [result EXCEPT !.alwaysOn = Append(@, name)]
              ELSE IF matcher.paths /\ Len(domain.paths) > 0 /\ Len(pathMatches) > 0
                   THEN [noted EXCEPT !.matchedPaths = (name :> pathMatches) @@ @]
              ELSE IF Len(domain.recall) > 0 /\ Len(recallMatches) > 0
                   THEN [noted EXCEPT !.matched = (name :> recallMatches) @@ @]
              ELSE noted
      IN  ProcessDomains_ExcludeRecordedOnly(matcher, prompt, manifest, allActiveFiles,
                                             Tail(names), next)

\* the loop of matchDomains over the domains named in names
RECURSIVE ProcessDomains(_, _, _, _, _, _)
ProcessDomains(matcher, prompt, manifest, allActiveFiles, names, result) ==
    IF names = <<>> THEN result
    ELSE
      LET name == Head(names)
          domain == manifest.domains[name]
          excludeMatches == findMatchingKeywords(matcher, prompt, domain.exclude)
          InPaths(file) == isPathMatch(file, domain.paths)
          pathMatches == SelectSeq(allActiveFiles, InPaths)
          recallMatches == findMatchingKeywords(matcher, prompt, domain.recall)
          next ==
              IF domain.state = "inactive" THEN result
              ELSE IF domain.alwaysOn
                   THEN [result EXCEPT !.alwaysOn = Append(@, name)]
              ELSE IF Len(domain.exclude) > 0 /\ Len(excludeMatches) > 0
                   THEN [result EXCEPT !.excluded = (name :> excludeMatches) @@ @]
              ELSE IF matcher.paths /\ Len(domain.paths) > 0 /\ Len(pathMatches) > 0
                   THEN [result EXCEPT !.matchedPaths = (name :> pathMatches) @@ @]
              ELSE IF Len(domain.recall) > 0 /\ Len(recallMatches) > 0
                   THEN [result EXCEPT !.matched = (name :> recallMatches) @@ @]
              ELSE result
      IN  ProcessDomains(matcher, prompt, manifest, allActiveFiles, Tail(names), next)

\* mutant: the global exclusions are recorded and the domains matched all
\* the same
matchDomains_GlobalExcludeRecordedOnly(matcher, prompt, manifest, activeFiles) ==
    LET allActiveFiles == Unique(activeFiles \o extractPathsFromPrompt(prompt))
        processed == ProcessDomains(matcher, prompt, manifest, allActiveFiles,
                                    DomainOrder(manifest), EmptyMatchResult)
    IN  [processed EXCEPT
            !.globalExcluded =
                findMatchingKeywords(matcher, prompt, manifest.globalExclude),
            !.starCommands = detectStarCommands(prompt)]

\* matchDomains(prompt, manifest, activeFiles) of the matcher module given;
\* a MatchResult of engine/matcher.ts has no matchedPaths, here it is empty
matchDomains(matcher, prompt, manifest, activeFiles) ==
    LET globalMatches ==
            findMatchingKeywords(matcher, prompt, manifest.globalExclude)
        allActiveFiles == Unique(activeFiles \o extractPathsFromPrompt(prompt))
        processed == ProcessDomains(matcher, prompt, manifest, allActiveFiles,
                                    DomainOrder(manifest), EmptyMatchResult)
    IN  IF Len(manifest.globalExclude) > 0 /\ Len(globalMatches) > 0
        THEN [EmptyMatchResult EXCEPT
                 !.globalExcluded = globalMatches,
                 !.starCommands = detectStarCommands(prompt)]
        ELSE [processed EXCEPT !.starCommands = detectStarCommands(prompt)]

-----------------------------------------------------------------------------
(* The manifest in memory.  A manifest is an object that refers to the      *)
(* object holding its domains, which refers to one object per domain; the   *)
(* heap keeps the three kinds of object under the name of the manifest they *)
(* were made for: "base" is state.config.manifest, "result" the manifest    *)
(* applySessionOverrides returned last.                                     *)

\* ManifestSchema.parse({}): every default
DefaultManifest ==
    [version |-> 1, devmode |-> FALSE, globalExclude |-> <<>>,
     domains |-> <<>>, commands |-> [state |-> "active"],
     context |-> [state |-> "active"]]

\* the manifest reached from the object root, its domains followed
Deref(h, root) ==
    LET object == h.manifest[root]
        map == h.domainMap[object.domains]
    IN  [object EXCEPT
            !.domains = [name \in DOMAIN map |-> h.domain[map[name]][name]]]

\* the objects of manifest, newly made and kept under root
Store(h, root, manifest) ==
    [h EXCEPT
        !.manifest = (root :> [manifest EXCEPT !.domains = root]) @@ @,
        !.domainMap = (root :> [name \in DOMAIN manifest.domains |-> root]) @@ @,
        !.domain = (root :> manifest.domains) @@ @]

JStrings(list) == JArr([i \in DOMAIN list |-> JStr(list[i])])
Strings(j) == [i \in DOMAIN j.v |-> j.v[i].v]

\* JSON.stringify(manifest), read by JSON.parse
ManifestToJson(manifest) ==
    JObj([version |-> JNum(manifest.version),
          devmode |-> JBool(manifest.devmode),
          globalExclude |-> JStrings(manifest.globalExclude),
          domains |-> JObj([name \in DOMAIN manifest.domains |->
              JObj([state |-> JStr(manifest.domains[name].state),
                    alwaysOn |-> JBool(manifest.domains[name].alwaysOn),
                    recall |-> JStrings(manifest.domains[name].recall),
                    exclude |-> JStrings(manifest.domains[name].exclude),
                    paths |-> JStrings(manifest.domains[name].paths),
                    file |-> JStr(manifest.domains[name].file)])]),
          commands |-> JObj([state |-> JStr(manifest.commands.state)]),
          context |-> JObj([state |-> JStr(manifest.context.state)])])

\* the value JSON.parse returns, taken as a Manifest
ManifestOfJson(j) ==
    [version |-> j.v.version.v,
     devmode |-> j.v.devmode.v,
     globalExclude |-> Strings(j.v.globalExclude),
     domains |-> [name \in DOMAIN j.v.domains.v |->
         [state |-> j.v.domains.v[name].v.state.v,
          alwaysOn |-> j.v.domains.v[name].v.alwaysOn.v,
          recall |-> Strings(j.v.domains.v[name].v.recall),
          exclude |-> Strings(j.v.domains.v[name].v.exclude),
          paths |-> Strings(j.v.domains.v[name].v.paths),
          file |-> j.v.domains.v[name].v.file.v]],
     commands |-> [state |-> j.v.commands.v.state.v],
     context |-> [state |-> j.v.context.v.state.v]]

\* mutant: { ...manifest }, the domains shared with the manifest copied
CloneManifest_Shallow(h, root, into) ==
    [h EXCEPT !.manifest = (into :> h.manifest[root]) @@ @]

\* JSON.parse(JSON.stringify(manifest)): new objects throughout, kept under
\* into
CloneManifest(h, root, into) ==
    Store(h, into, ManifestOfJson(ManifestToJson(Deref(h, root))))

\* mutant: an override sets the state the other way round
OverriddenState_Inverted(stateOverride) ==
    IF stateOverride THEN "inactive" ELSE "active"

\* stateOverride ? "active" : "inactive"
OverriddenState(stateOverride) ==
    IF stateOverride THEN "active" ELSE "inactive"

\* applySessionOverrides(manifest, session) for the manifest at root: the
\* heap after the call, the manifest returned kept under into
applySessionOverrides(h, root, session, into) ==
    LET cloned == CloneManifest(h, root, into)
        devmode == session.overrides.devmode
        withDevmode ==
            IF devmode # JNull
            THEN [cloned EXCEPT !.manifest[into].devmode = devmode.v]
            ELSE cloned
        map == withDevmode.domainMap[withDevmode.manifest[into].domains]
        domainStates == session.overrides.domainStates
        Written(owner, name) ==
            /\ name \in DOMAIN domainStates
            /\ domainStates[name] # JNull
            /\ name \in DOMAIN map
            /\ map[name] = owner
        objects == withDevmode.domain
    IN  [withDevmode EXCEPT
            !.domain =
                [owner \in DOMAIN objects |->
                    [name \in DOMAIN objects[owner] |->
                        IF Written(owner, name)
                        THEN [objects[owner][name] EXCEPT
                                !.state = OverriddenState(domainStates[name].v)]
                        ELSE objects[owner][name]]]]

\* the heap of a plugin that has loaded manifest and runs matcher
HeapOf(matcher, manifest) ==
    Store([matcher |-> matcher, manifest |-> <<>>, domainMap |-> <<>>,
           domain |-> <<>>], "base", manifest)

\* what a fresh plugin state leaves of the heap: the manifest of the
\* configuration
LoadedHeap(h) == HeapOf(h.matcher, Deref(h, "base"))

NoMatch == [kind |-> "none"]

-----------------------------------------------------------------------------
(* engine/brackets: the context bracket of a prompt count.                  *)

Thresholds == [moderate : 0..MaxThreshold, depleted : 0..MaxThreshold,
               critical : 0..MaxThreshold]

\* a bracket of the context file: an enabled flag and its rules
ContextBracket(enabled, rules) == [enabled |-> enabled, rules |-> rules]

Brackets ==
    [fresh : {ContextBracket(e, r) : e \in BOOLEAN, r \in {<<"stay lean">>, <<"shared">>}},
     moderate : {ContextBracket(e, r) : e \in BOOLEAN, r \in {<<"reinforce", "context">>, <<"shared">>}},
     depleted : {ContextBracket(e, r) : e \in BOOLEAN, r \in {<<"checkpoint">>, <<"shared">>}}]

ContextFiles == [thresholds : Thresholds, brackets : Brackets]

BracketResult(name, rules, threshold) ==
    [name |-> name, rules |-> rules, threshold |-> threshold]

\* mutant: the critical bracket starts one prompt late
getBracket_LateCritical(promptCount, context) ==
    LET thresholds == context.thresholds
        brackets == context.brackets
    IN  IF promptCount > thresholds.critical
        THEN BracketResult("CRITICAL",
                 IF brackets.depleted.enabled THEN brackets.depleted.rules ELSE <<>>,
                 thresholds.critical)
        ELSE IF promptCount >= thresholds.depleted
        THEN BracketResult("DEPLETED",
                 IF brackets.depleted.enabled THEN brackets.depleted.rules ELSE <<>>,
                 thresholds.depleted)
        ELSE IF promptCount >= thresholds.moderate
        THEN BracketResult("MODERATE",
                 IF brackets.moderate.enabled THEN brackets.moderate.rules ELSE <<>>,
                 thresholds.moderate)
        ELSE BracketResult("FRESH",
                 IF brackets.fresh.enabled THEN brackets.fresh.rules ELSE <<>>,
                 0)

\* mutant: the tests run from the least urgent level up
getBracket_ModerateFirst(promptCount, context) ==
    LET thresholds == context.thresholds
        brackets == context.brackets
    IN  IF promptCount >= thresholds.moderate
        THEN BracketResult("MODERATE",
                 IF brackets.moderate.enabled THEN brackets.moderate.rules ELSE <<>>,
                 thresholds.moderate)
        ELSE IF promptCount >= thresholds.depleted
        THEN BracketResult("DEPLETED",
                 IF brackets.depleted.enabled THEN brackets.depleted.rules ELSE <<>>,
                 thresholds.depleted)
        ELSE IF promptCount >= thresholds.critical
        THEN BracketResult("CRITICAL",
                 IF brackets.depleted.enabled THEN brackets.depleted.rules ELSE <<>>,
                 thresholds.critical)
        ELSE BracketResult("FRESH",
                 IF brackets.fresh.enabled THEN brackets.fresh.rules ELSE <<>>,
                 0)

\* mutant: CRITICAL hands out the depleted rules whether or not they are enabled
getBracket_CriticalIgnoresEnabled(promptCount, context) ==
    LET thresholds == context.thresholds
        brackets == context.brackets
    IN  IF promptCount >= thresholds.critical
        THEN BracketResult("CRITICAL", brackets.depleted.rules, thresholds.critical)
        ELSE IF promptCount >= thresholds.depleted
        THEN BracketResult("DEPLETED",
                 IF brackets.depleted.enabled THEN brackets.depleted.rules ELSE <<>>,
                 thresholds.depleted)
        ELSE IF promptCount >= thresholds.moderate
        THEN BracketResult("MODERATE",
                 IF brackets.moderate.enabled THEN brackets.moderate.rules ELSE <<>>,
                 thresholds.moderate)
        ELSE BracketResult("FRESH",
                 IF brackets.fresh.enabled THEN brackets.fresh.rules ELSE <<>>,
                 0)

getBracket(promptCount, context) ==
    LET thresholds == context.thresholds
        brackets == context.brackets
    IN  IF promptCount >= thresholds.critical
        THEN BracketResult("CRITICAL",
                 IF brackets.depleted.enabled THEN brackets.depleted.rules ELSE <<>>,
                 thresholds.critical)
        ELSE IF promptCount >= thresholds.depleted
        THEN BracketResult("DEPLETED",
                 IF brackets.depleted.enabled THEN brackets.depleted.rules ELSE <<>>,
                 thresholds.depleted)
        ELSE IF promptCount >= thresholds.moderate
        THEN BracketResult("MODERATE",
                 IF brackets.moderate.enabled THEN brackets.moderate.rules ELSE <<>>,
                 thresholds.moderate)
        ELSE BracketResult("FRESH",
                 IF brackets.fresh.enabled THEN brackets.fresh.rules ELSE <<>>,
                 0)

-----------------------------------------------------------------------------
(* engine/loader: the rules of a turn.  carlyConfig holds what loadConfig    *)
(* read besides the manifest: the commands, the context file, and each rule  *)
(* document by the rules parseDomainFile reads from it.                      *)

\* parseDomainFile(filePath): the rules of the document, none if it is missing
parseDomainFile(cfg, file) ==
    IF file \in DOMAIN cfg.files THEN cfg.files[file] ELSE <<>>

\* the sum of rule.length over a list of rules
RECURSIVE SumLengths(_)
SumLengths(rules) ==
    IF rules = <<>> THEN 0 ELSE Len(Head(rules)) + SumLengths(Tail(rules))

\* the sum of f over the keys in S
RECURSIVE SumOf(_, _)
SumOf(f, S) ==
    IF S = {} THEN 0
    ELSE LET x == CHOOSE x \in S : TRUE IN f[x] + SumOf(f, S \ {x})

countRules(domains) ==
    SumOf([name \in DOMAIN domains |-> Len(domains[name])], DOMAIN domains)

estimateRuleTokens(rules) ==
    TokensOfLength(SumOf([name \in DOMAIN rules |-> SumLengths(rules[name])],
                         DOMAIN rules))

calculateBaseline(manifest, cfg) ==
    LET active == { name \in DOMAIN manifest.domains :
                      manifest.domains[name].state # "inactive" }
        totalRuleText ==
            SumOf([name \in active |->
                      SumLengths(parseDomainFile(cfg, manifest.domains[name].file))],
                  active)
            + SumOf([name \in DOMAIN cfg.commands |->
                        SumLengths(cfg.commands[name].rules)], DOMAIN cfg.commands)
            + SumLengths(cfg.context.brackets.fresh.rules)
            + SumLengths(cfg.context.brackets.moderate.rules)
            + SumLengths(cfg.context.brackets.depleted.rules)
    IN  TokensOfLength(totalRuleText)

\* what a call raises when it reads a property of undefined
TypeError == [kind |-> "TypeError"]

\* no system.transform hook has run yet
NoRules == [kind |-> "none"]

\* the properties every object inherits from Object.prototype whose names a
\* command token can spell: a token is lower case and starts with a letter
ObjectPrototype == {"constructor"}

Range(list) == { list[i] : i \in DOMAIN list }

\* loadRules(matchResult, config, bracket, promptCount); commands[cmdName] of
\* a name that is no command but is inherited is an object without rules, and
\* reading the length of its rules raises
loadRules(matchResult, manifest, cfg, bracket, promptCount) ==
    LET DomainRules(name) == parseDomainFile(cfg, manifest.domains[name].file)
        Loaded(names) ==
            LET kept == { name \in names \cap DOMAIN manifest.domains :
                            Len(DomainRules(name)) > 0 }
            IN  [name \in kept |-> DomainRules(name)]
        commandsActive == /\ manifest.commands.state = "active"
                          /\ Len(matchResult.starCommands) > 0
        tokens == IF commandsActive THEN Range(matchResult.starCommands) ELSE {}
        defined == { cmdName \in tokens \cap DOMAIN cfg.commands :
                       Len(cfg.commands[cmdName].rules) > 0 }
        Available(name) ==
            /\ manifest.domains[name].state # "inactive"
            /\ ~manifest.domains[name].alwaysOn
            /\ name \notin DOMAIN matchResult.matched
            /\ name \notin DOMAIN matchResult.excluded
            /\ Len(manifest.domains[name].recall) > 0
        available == SelectSeq(DomainOrder(manifest), Available)
    IN  IF \E cmdName \in tokens :
               cmdName \notin DOMAIN cfg.commands /\ cmdName \in ObjectPrototype
        THEN TypeError
        ELSE [alwaysOn |-> Loaded(Range(matchResult.alwaysOn)),
              matched |-> Loaded(DOMAIN matchResult.matched),
              commands |-> [cmdName \in defined |-> cfg.commands[cmdName].rules],
              bracketRules |-> IF manifest.context.state = "active"
                               THEN bracket.rules ELSE <<>>,
              bracket |-> bracket.name,
              promptCount |-> promptCount,
              bracketThreshold |-> bracket.threshold,
              matchedKeywords |-> matchResult.matched,
              excludedDomains |-> matchResult.excluded,
              globalExcluded |-> matchResult.globalExcluded,
              devmode |-> manifest.devmode,
              contextEnabled |-> manifest.context.state = "active",
              commandsEnabled |-> manifest.commands.state = "active",
              availableDomains |->
                  [i \in DOMAIN available |->
                      [name |-> available[i],
                       recall |-> manifest.domains[available[i]].recall]]]

totalRulesThisPrompt(loaded) ==
    countRules(loaded.alwaysOn) + countRules(loaded.matched)
        + countRules(loaded.commands) + Len(loaded.bracketRules)

tokensInjectedThisPrompt(loaded) ==
    estimateRuleTokens(loaded.alwaysOn) + estimateRuleTokens(loaded.matched)
        + estimateRuleTokens(loaded.commands)
        + TokensOfLength(SumLengths(loaded.bracketRules))

\* a configuration without commands or rule documents, with the thresholds
\* of the schema and one rule in each bracket
PlainConfig ==
    [files |-> <<>>, commands |-> <<>>,
     context |-> [thresholds |-> [moderate |-> 15, depleted |-> 35, critical |-> 50],
                  brackets |-> [fresh |-> ContextBracket(TRUE, <<"lean">>),
                                moderate |-> ContextBracket(TRUE, <<"keep">>),
                                depleted |-> ContextBracket(TRUE, <<"save">>)]]]

\* state.baselineTokensPerPrompt: calculateBaseline(config) at the start
baselineTokensPerPrompt == calculateBaseline(Deref(heap, "base"), carlyConfig)

\* mutant: nothing is counted as skipped
tokensSkippedThisPrompt_None(loaded) == 0

\* what the selection saved in the turn: the baseline less the injection,
\* and never below zero
tokensSkippedThisPrompt(loaded) ==
    Max(0, baselineTokensPerPrompt - tokensInjectedThisPrompt(loaded))

\* the rules the system.transform hook loads for session and its cached match
TurnRules(session, cached) ==
    LET applied == applySessionOverrides(heap, "base", session, "result")
        effectiveManifest == Deref(applied, "result")
        bracket == getBracket(session.promptCount, carlyConfig.context)
    IN  loadRules(cached.match, effectiveManifest, carlyConfig, bracket,
                  session.promptCount)

\* the plugin as engine/matcher.ts, a manifest of defaults and the plain
\* configuration make it
MatchInitPlain ==
    /\ heap = HeapOf(MatcherSubstring, DefaultManifest)
    /\ lastMatch = [s \in SessionIds |-> NoMatch]
    /\ carlyConfig = PlainConfig
    /\ loadedRules = NoRules
    /\ activeSessionID = NoActiveSession

-----------------------------------------------------------------------------
(* The plugin's hooks over the session files and stats.json *)

\* what a session file may be turned into from outside: removed, overwritten
\* with text that is not JSON, with the JSON text null, or left without its
\* lastActivity
DamagedFiles(file) ==
    {Absent, Garbage, JsonFile(JNull)}
        \cup IF file.kind = "json" /\ file.value.t = "obj"
                  /\ "lastActivity" \in DOMAIN file.value.v
             THEN {JsonFile(JObj([k \in DOMAIN file.value.v \ {"lastActivity"} |->
                                     file.value.v[k]]))}
             ELSE {}

InitSession ==
    /\ files = [s \in SessionIds |-> Absent]
    /\ sessions = [s \in SessionIds |-> NotLoaded]
    /\ clock = 0
    /\ statsFile = Absent
    /\ messages = <<>>
    /\ trimConfig = [enabled |-> TRUE, mode |-> "moderate", preserveLastN |-> 1]
    /\ BracketInitDefault
    /\ MatchInitPlain

\* the chat.message hook for a turn of session sessionID
ChatMessage(sessionID, promptText) ==
    IF promptText = "" THEN UNCHANGED vars
    ELSE
      LET existing == loadSession(files, sessionID)
          isNew == existing = Absent
          session == IF isNew THEN createSession(sessionID, clock) ELSE existing
          held == IF isNew \/ sessions[sessionID] = NotLoaded
                  THEN session ELSE sessions[sessionID]
          based == IF held.tokenStats.baselineTokensPerPrompt = 0
                   THEN [held EXCEPT !.tokenStats.baselineTokensPerPrompt =
                                         baselineTokensPerPrompt]
                   ELSE held
          currentSession == updateSessionActivity(based, promptText, clock)
          applied == applySessionOverrides(heap, "base", currentSession, "result")
          effectiveManifest == Deref(applied, "result")
          matchResult == matchDomains(heap.matcher, promptText, effectiveManifest, <<>>)
      IN  /\ held.promptCount < MaxPrompts
          /\ sessions' = [sessions EXCEPT ![sessionID] = currentSession]
          /\ heap' = applied
          /\ lastMatch' = [lastMatch EXCEPT
                             ![sessionID] = [prompt |-> promptText,
                                             match |-> matchResult]]
          /\ activeSessionID' = sessionID
          /\ files' = saveSession(FilesAfterLoad(files, sessionID), currentSession)
          /\ UNCHANGED <<clock, trimVars, bracketVars, statsVars, carlyConfig, loadedRules>>

\* the event hook on session.created
SessionCreated ==
    /\ files' = cleanStaleSessions(files, clock)
    /\ UNCHANGED <<sessions, clock, trimVars, bracketVars, statsVars, matchVars>>

\* the plugin starts again: loadCumulativeStats reads stats.json and the
\* session files and writes nothing, the sessions map is empty, then the
\* start-up sweep.  state.cumulativeStats, the plugin's copy of the stats last
\* loaded or written, is read by the stats report only and is not part of
\* this state.
Restart ==
    /\ sessions' = [s \in SessionIds |-> NotLoaded]
    /\ heap' = LoadedHeap(heap)
    /\ lastMatch' = [s \in SessionIds |-> NoMatch]
    /\ activeSessionID' = NoActiveSession
    /\ files' = cleanStaleSessions(files, clock)
    /\ UNCHANGED <<clock, trimVars, bracketVars, statsVars, carlyConfig, loadedRules>>

\* the clear_stats tool
ClearStats ==
    /\ files' = clearAllStats(files)
    /\ statsFile' = Absent
    /\ sessions' = [s \in SessionIds |->
                      IF sessions[s] = NotLoaded THEN NotLoaded
                      ELSE [sessions[s] EXCEPT !.tokenStats =
                               [ZeroTokenStats EXCEPT !.baselineTokensPerPrompt =
                                   baselineTokensPerPrompt]]]
    /\ UNCHANGED <<clock, trimVars, bracketVars, matchVars>>

\* a session file is removed or overwritten from outside
DamageFile(sessionId, content) ==
    /\ files[sessionId].kind = "json"
    /\ content \in DamagedFiles(files[sessionId])
    /\ files' = [files EXCEPT ![sessionId] = content]
    /\ UNCHANGED <<sessions, clock, trimVars, bracketVars, statsVars, matchVars>>

\* twelve hours pass
Tick ==
    /\ clock < 12 * MaxTicks
    /\ clock' = clock + 12
    /\ UNCHANGED <<files, sessions, trimVars, bracketVars, statsVars, matchVars>>

NextSession ==
    \/ \E s \in SessionIds, p \in TurnPrompts : ChatMessage(s, p)
    \/ SessionCreated
    \/ Restart
    \/ ClearStats
    \/ \E s \in SessionIds : \E c \in DamagedFiles(files[s]) : DamageFile(s, c)
    \/ Tick

SpecSession == InitSession /\ [][NextSession]_vars

-----------------------------------------------------------------------------
(* The hooks that keep the token stats of a session and stats.json *)

\* a transcript whose first record holds a stale block of rules and a read
\* that a later record repeats
StatsTranscript ==
    << Message("assistant",
               <<TextPart("<carly-rules>be brief</carly-rules> go on"),
                 ReadFile("a.py", "completed", 2004, 0)>>),
       Message("assistant", <<ReadFile("a.py", "completed", 396, 0)>>),
       Message("user", <<TextPart("next")>>) >>

\* what stats.json may be turned into from outside: removed, overwritten with
\* text that is not JSON, or with JSON that is no stats record
DamagedStats == {Absent, Garbage, JsonFile(JObj([version |-> JStr("one")]))}

InitStats ==
    /\ files = [s \in SessionIds |-> Absent]
    /\ sessions = [s \in SessionIds |-> NotLoaded]
    /\ clock = 1
    /\ statsFile = Absent
    /\ messages \in {<<>>, StatsTranscript}
    /\ trimConfig = [enabled |-> TRUE, mode |-> "moderate", preserveLastN |-> 1]
    /\ BracketInitDefault
    /\ MatchInitPlain

\* mutant: the cached match is kept after the injection
SystemTransform_KeepsMatch(sessionID) ==
    /\ lastMatch[sessionID] # NoMatch
    /\ sessions[sessionID] # NotLoaded
    /\ sessions[sessionID].tokenStats.promptsProcessed < MaxStatPrompts
    /\ LET session == sessions[sessionID]
           loaded == TurnRules(session, lastMatch[sessionID])
           tokenStats ==
               [session.tokenStats EXCEPT
                   !.tokensInjected = @ + tokensInjectedThisPrompt(loaded),
                   !.tokensSkippedBySelection = @ + tokensSkippedThisPrompt(loaded),
                   !.promptsProcessed = @ + 1,
                   !.rulesInjected = @ + totalRulesThisPrompt(loaded)]
           updated == [session EXCEPT !.tokenStats = tokenStats]
           saved == saveSession(files, updated)
       IN  /\ heap' = applySessionOverrides(heap, "base", session, "result")
           /\ loadedRules' = loaded
           /\ IF loaded = TypeError
              THEN UNCHANGED <<sessions, files, statsFile, lastMatch>>
              ELSE /\ sessions' = [sessions EXCEPT ![sessionID] = updated]
                   /\ files' = saved
                   /\ statsFile' = saveCumulativeStats(
                           updateCumulativeStats(statsFile, saved, updated))
                   /\ UNCHANGED lastMatch
           /\ UNCHANGED <<clock, trimVars, bracketVars, carlyConfig, activeSessionID>>

\* the system.transform hook for a session with a cached match: the session
\* overrides are applied, the rules of the turn loaded, their count and token
\* estimate added to the stats of the session, the session is saved,
\* stats.json is brought up to date and the cached match is dropped.  When
\* loadRules raises, the hook ends there: the host is given the error and the
\* session, its file and stats.json are as before.
SystemTransform(sessionID) ==
    /\ lastMatch[sessionID] # NoMatch
    /\ sessions[sessionID] # NotLoaded
    /\ sessions[sessionID].tokenStats.promptsProcessed < MaxStatPrompts
    /\ LET session == sessions[sessionID]
           loaded == TurnRules(session, lastMatch[sessionID])
           tokenStats ==
               [session.tokenStats EXCEPT
                   !.tokensInjected = @ + tokensInjectedThisPrompt(loaded),
                   !.tokensSkippedBySelection = @ + tokensSkippedThisPrompt(loaded),
                   !.promptsProcessed = @ + 1,
                   !.rulesInjected = @ + totalRulesThisPrompt(loaded)]
           updated == [session EXCEPT !.tokenStats = tokenStats]
           saved == saveSession(files, updated)
       IN  /\ heap' = applySessionOverrides(heap, "base", session, "result")
           /\ loadedRules' = loaded
           /\ IF loaded = TypeError
              THEN UNCHANGED <<sessions, files, statsFile, lastMatch>>
              ELSE /\ sessions' = [sessions EXCEPT ![sessionID] = updated]
                   /\ files' = saved
                   /\ statsFile' = saveCumulativeStats(
                           updateCumulativeStats(statsFile, saved, updated))
                   /\ lastMatch' = [lastMatch EXCEPT ![sessionID] = NoMatch]
           /\ UNCHANGED <<clock, trimVars, bracketVars, carlyConfig, activeSessionID>>

\* the messages.transform hook while sessionID is the active session: the
\* transcript is trimmed, what the trim saved is added to the session, and
\* stats.json is brought up to date
TrimForSession(sessionID) ==
    /\ activeSessionID = sessionID
    /\ sessions[sessionID] # NotLoaded
    /\ LET session == sessions[sessionID]
           trimmed == trimMessageHistory(messages, trimConfig, clock)
           counted == trimmed.stats.tokensSaved > 0
                          \/ trimmed.stats.carlyBlocksStripped > 0
           updated ==
               IF counted
               THEN [session EXCEPT
                       !.tokenStats.tokensTrimmedFromHistory =
                           @ + trimmed.stats.tokensSaved,
                       !.tokenStats.tokensTrimmedCarlyBlocks =
                           @ + trimmed.stats.carlyTokensSaved]
               ELSE session
           saved == IF counted THEN saveSession(files, updated) ELSE files
       IN  /\ messages' = trimmed.messages
           /\ sessions' = [sessions EXCEPT ![sessionID] = updated]
           /\ files' = saved
           /\ statsFile' = saveCumulativeStats(
                               updateCumulativeStats(statsFile, saved, updated))
    /\ UNCHANGED <<trimConfig, clock, bracketVars, matchVars>>

\* stats.json is removed or overwritten from outside
DamageStats(content) ==
    /\ statsFile.kind = "json"
    /\ statsFile' = content
    /\ UNCHANGED <<files, sessions, clock, trimVars, bracketVars, matchVars>>

\* the turns taken here are those that start a session: one the plugin does
\* not hold, or one whose file is gone
NextStats ==
    \/ \E s \in SessionIds, p \in TurnPrompts :
           /\ sessions[s] = NotLoaded \/ files[s] = Absent
           /\ ChatMessage(s, p)
    \/ \E s \in SessionIds : SystemTransform(s)
    \/ \E s \in SessionIds : TrimForSession(s)
    \/ ClearStats
    \/ \E s \in SessionIds : DamageFile(s, Absent)
    \/ \E c \in DamagedStats : DamageStats(c)

SpecStats == InitStats /\ [][NextStats]_vars

-----------------------------------------------------------------------------
(* The plugin started over files that were written or damaged before *)

\* what the plugin may find at sessions/<sessionId>.json
StartFiles(sessionId) ==
    LET session == updateSessionActivity(createSession(sessionId, 0), " fix  the bug ", 0)
    IN  {Absent, Garbage, JsonFile(JNull), JsonFile(SessionToJson(session))}
            \cup DamagedFiles(JsonFile(SessionToJson(session)))

\* what the plugin may find at stats.json
StartStats == DamagedStats \cup {JsonFile(StatsToJson(EmptyStats))}

InitStore ==
    /\ files \in [SessionIds -> UNION { StartFiles(s) : s \in SessionIds }]
    /\ \A s \in SessionIds : files[s] \in StartFiles(s)
    /\ sessions = [s \in SessionIds |-> NotLoaded]
    /\ clock = 12
    /\ statsFile \in StartStats
    /\ messages = <<>>
    /\ trimConfig = [enabled |-> TRUE, mode |-> "moderate", preserveLastN |-> 1]
    /\ BracketInitDefault
    /\ MatchInitPlain

NextStore ==
    \/ \E s \in SessionIds, p \in TurnPrompts :
           /\ sessions[s] = NotLoaded
           /\ ChatMessage(s, p)
    \/ \E s \in SessionIds : SystemTransform(s)
    \/ Restart

SpecStore == InitStore /\ [][NextStore]_vars

-----------------------------------------------------------------------------
(* saveSession and loadSession on their own, for sessions of every shape *)

SessionValues(sessionId) ==
    { [kind |-> "session", id |-> sessionId, started |-> JTime(0),
       cwd |-> directory, label |-> "app", title |-> title,
       promptCount |-> promptCount, lastActivity |-> JTime(12),
       activeFiles |-> activeFiles, overrides |-> overrides,
       tokenStats |-> tokenStats] :
        title \in {<<>>, <<"null">>, <<"fix the bug">>},
        promptCount \in {0, 7},
        activeFiles \in {<<>>, <<"a.py", "b.py">>},
        overrides \in { NoOverrides,
                        [devmode |-> JBool(TRUE),
                         domainStates |-> [d \in {"testing"} |-> JBool(FALSE)]],
                        [devmode |-> JBool(FALSE),
                         domainStates |-> [d \in {"testing"} |-> JNull]] },
        tokenStats \in { ZeroTokenStats,
                         [f \in TokenStatsFields |->
                             IF f = "tokensInjected" THEN 40 ELSE 2] } }

InitRoundTrip ==
    /\ files = [s \in SessionIds |-> Absent]
    /\ sessions \in [SessionIds -> UNION { SessionValues(s) : s \in SessionIds }]
    /\ \A s \in SessionIds : sessions[s].id = s
    /\ clock = 0
    /\ statsFile = Absent
    /\ messages = <<>>
    /\ trimConfig = [enabled |-> TRUE, mode |-> "moderate", preserveLastN |-> 1]
    /\ BracketInitDefault
    /\ MatchInitDefault

\* saveSession(configPath, session) for the session held under sessionId
SaveSession(sessionId) ==
    /\ sessions[sessionId] # NotLoaded
    /\ files' = saveSession(files, sessions[sessionId])
    /\ UNCHANGED <<sessions, clock, trimVars, bracketVars, statsVars, matchVars>>

\* loadSession(configPath, sessionId), the result taken into the sessions map
LoadSession(sessionId) ==
    /\ loadSession(files, sessionId) # Absent
    /\ sessions' = [sessions EXCEPT ![sessionId] = loadSession(files, sessionId)]
    /\ files' = FilesAfterLoad(files, sessionId)
    /\ UNCHANGED <<clock, trimVars, bracketVars, statsVars, matchVars>>

\* the plugin starts again and holds no session
Unload ==
    /\ sessions' = [s \in SessionIds |-> NotLoaded]
    /\ UNCHANGED <<files, clock, trimVars, bracketVars, statsVars, matchVars>>

NextRoundTrip ==
    \/ \E s \in SessionIds : SaveSession(s)
    \/ \E s \in SessionIds : LoadSession(s)
    \/ Unload

SpecRoundTrip == InitRoundTrip /\ [][NextRoundTrip]_vars

-----------------------------------------------------------------------------
(* Claims on the prompt counter *)

\* the prompt counter of a session id: that of the session the plugin holds,
\* else that of its file, else 0
PromptCounter(ss, fs, s) ==
    IF ss[s] # NotLoaded THEN ss[s].promptCount
    ELSE IF loadSession(fs, s) # Absent THEN loadSession(fs, s).promptCount
    ELSE 0

\* C8 (as claimed): every chat.message turn of a session with a prompt text
\* leaves its prompt counter one above its value before the turn.
C8_OneIncrementPerTurn ==
    [][\A s \in SessionIds :
          (\E p \in TurnPrompts \ {""} : ChatMessage(s, p)) =>
              PromptCounter(sessions', files', s) = PromptCounter(sessions, files, s) + 1]_vars

\* C9 (as claimed): across turns, sweeps, clear_stats and damaged files, the
\* prompt counter of a session the plugin holds never decreases.
C9_CounterNeverDecreases ==
    [][\A s \in SessionIds :
          (sessions[s] # NotLoaded /\ sessions'[s] # NotLoaded) =>
              sessions'[s].promptCount >= sessions[s].promptCount]_vars


-----------------------------------------------------------------------------
(* Claims on stats.json and the session files *)

\* the stats a stats.json written by the plugin holds
LedgerOf(file) == CumulativeStatsSchema(file.value)

WrittenStats(file) == file.kind = "json" /\ CumulativeStatsValid(file.value)

RECURSIVE ClaimTotal(_, _, _)
ClaimTotal(summaries, f, n) ==
    IF n = 0 THEN 0 ELSE ClaimTotal(summaries, f, n - 1) + summaries[n][f]

\* C14: whenever stats.json holds stats the plugin wrote, each cumulative
\* total is the sum of its field over the snapshots of the ledger
\* (totalTokensSaved the sum of tokensSaved), and no session id has two
\* snapshots.
C14_TotalsAreSums ==
    WrittenStats(statsFile) =>
        LET ledger == LedgerOf(statsFile)
            n == Len(ledger.sessions)
        IN  /\ \A f \in CumulativeFields \ {"totalTokensSaved"} :
                   ledger.cumulative[f] = ClaimTotal(ledger.sessions, f, n)
            /\ ledger.cumulative.totalTokensSaved
                   = ClaimTotal(ledger.sessions, "tokensSaved", n)
            /\ \A i, j \in 1..n :
                   ledger.sessions[i].sessionId = ledger.sessions[j].sessionId => i = j

\* two sessions have snapshots that count tokens, one of them with trimmed
\* history
C14_Witness ==
    /\ WrittenStats(statsFile)
    /\ Len(LedgerOf(statsFile).sessions) = 2
    /\ \A i \in 1..2 : LedgerOf(statsFile).sessions[i].tokensInjected > 0
    /\ \E i \in 1..2 : LedgerOf(statsFile).sessions[i].tokensTrimmedFromHistory > 0
    /\ LedgerOf(statsFile).cumulative.totalTokensSaved > 0

\* a session file the sweep's claim calls corrupt: there, and not a valid session
CorruptSessionFile(file) ==
    file # Absent /\ ~(file.kind = "json" /\ SessionConfigValid(file.value))

\* a valid session file whose last activity is more than 24 hours before now
StaleSessionFile(file, now) ==
    /\ file.kind = "json"
    /\ SessionConfigValid(file.value)
    /\ file.value.v.lastActivity.t = "time"
    /\ file.value.v.lastActivity.v < now - 24

\* C15 (as claimed): a sweep deletes every session file that is stale or is
\* not a valid session (a missing lastActivity included), keeps every valid
\* one inside the window, and returns the number of files it deleted.
C15_SweepDeletesStaleAndCorrupt ==
    [][SessionCreated =>
          /\ \A s \in SessionIds :
                 (CorruptSessionFile(files[s]) \/ StaleSessionFile(files[s], clock))
                     => files'[s] = Absent
          /\ \A s \in SessionIds :
                 (files[s] # Absent /\ ~CorruptSessionFile(files[s])
                     /\ ~StaleSessionFile(files[s], clock))
                     => files'[s] = files[s]
          /\ cleanStaleSessionsCount(files, clock)
                 = Cardinality({ s \in SessionIds :
                                   files[s] # Absent /\ files'[s] = Absent })]_vars

\* stats.json is there and is no stats record
CorruptStatsFile(file) ==
    file # Absent /\ ~(file.kind = "json" /\ Truthy(file.value)
                          /\ CumulativeStatsValid(file.value))

\* C16 (as claimed): loading a corrupt session file or a corrupt stats.json
\* gives what loading an absent one gives, and the load deletes the corrupt
\* file.
C16_CorruptTreatedAsAbsent ==
    [][/\ \A s \in SessionIds :
             CorruptSessionFile(files[s]) =>
                 /\ loadSession(files, s) = Absent
                 /\ FilesAfterLoad(files, s)[s] = Absent
                 /\ (\E p \in TurnPrompts \ {""} : ChatMessage(s, p)) =>
                        /\ sessions'[s].promptCount = 1
                        /\ loadSession(files', s) = sessions'[s]
       /\ CorruptStatsFile(statsFile) =>
             /\ loadCumulativeStats(statsFile, files) = loadCumulativeStats(Absent, files)
             /\ (\E s \in SessionIds : SystemTransform(s)) =>
                    WrittenStats(statsFile')
             /\ Restart => statsFile' = Absent]_vars

\* C17: a session that is saved and then loaded under its id comes back
\* equal field for field.
C17_RoundTrip ==
    \A s \in SessionIds :
        sessions[s] # NotLoaded =>
            loadSession(saveSession(files, sessions[s]), sessions[s].id) = sessions[s]

\* a session with a title, overrides, active files and token stats was saved
\* and loaded back
C17_Witness ==
    \E s \in SessionIds :
        /\ sessions[s] # NotLoaded
        /\ sessions[s].title = <<"null">>
        /\ sessions[s].promptCount = 7
        /\ sessions[s].overrides.devmode = JBool(TRUE)
        /\ sessions[s].activeFiles # <<>>
        /\ sessions[s].tokenStats.tokensInjected = 40
        /\ files[s] = JsonFile(SessionToJson(sessions[s]))
        /\ loadSession(files, s) = sessions[s]


-----------------------------------------------------------------------------
(* getBracket on its own, for context files of every shape *)

NoBracket == <<>>

InitBracket ==
    /\ bracketIn \in [promptCount : 0..MaxCount, context : ContextFiles]
    /\ bracketOut = NoBracket
    /\ messages = <<>>
    /\ trimConfig = [enabled |-> TRUE, mode |-> "moderate", preserveLastN |-> 1]
    /\ clock = 0
    /\ SessionInitDefault
    /\ StatsInitDefault
    /\ MatchInitDefault

\* the system.transform hook asks for the bracket of the session's prompt count
GetBracket ==
    /\ bracketOut' = getBracket(bracketIn.promptCount, bracketIn.context)
    /\ UNCHANGED <<bracketIn, trimVars, sessionVars, statsVars, matchVars>>

\* a further turn: the prompt count is one higher and no bracket is computed yet
CountPrompt ==
    /\ bracketIn.promptCount < MaxCount
    /\ bracketIn' = [bracketIn EXCEPT !.promptCount = @ + 1]
    /\ bracketOut' = NoBracket
    /\ UNCHANGED <<trimVars, sessionVars, statsVars, matchVars>>

NextBracket == GetBracket \/ CountPrompt

SpecBracket == InitBracket /\ [][NextBracket]_vars

-----------------------------------------------------------------------------
(* Claims on getBracket *)

Ordered(thresholds) ==
    thresholds.moderate < thresholds.depleted /\ thresholds.depleted < thresholds.critical

\* the level the claimed ranges give a prompt count
ClaimLevel(c, t) ==
    IF c < t.moderate THEN "FRESH"
    ELSE IF c < t.depleted THEN "MODERATE"
    ELSE IF c < t.critical THEN "DEPLETED"
    ELSE "CRITICAL"

\* the bracket of the context file whose rules and enabled flag a level uses
\* (CRITICAL has no bracket of its own in the context file and uses depleted)
ClaimLevelBracket(level, brackets) ==
    CASE level = "FRESH" -> brackets.fresh
      [] level = "MODERATE" -> brackets.moderate
      [] OTHER -> brackets.depleted

ClaimLevelThreshold(level, t) ==
    CASE level = "FRESH" -> 0
      [] level = "MODERATE" -> t.moderate
      [] level = "DEPLETED" -> t.depleted
      [] OTHER -> t.critical

\* C10: with moderate < depleted < critical, getBracket names FRESH below
\* moderate, MODERATE from moderate up to depleted, DEPLETED from depleted up
\* to critical and CRITICAL from critical on; the rules are the level's rules
\* when the level is enabled and the empty list when it is disabled; the
\* name and the level's threshold (0 for FRESH) are reported either way.
C10_LevelRanges ==
    (bracketOut # NoBracket /\ Ordered(bracketIn.context.thresholds)) =>
        LET c == bracketIn.promptCount
            t == bracketIn.context.thresholds
            level == ClaimLevel(c, t)
            b == ClaimLevelBracket(level, bracketIn.context.brackets)
        IN  /\ bracketOut.name = level
            /\ bracketOut.threshold = ClaimLevelThreshold(level, t)
            /\ bracketOut.rules = IF b.enabled THEN b.rules ELSE <<>>

\* a prompt count exactly on the critical threshold, with the level disabled
C10_Witness ==
    /\ bracketOut # NoBracket
    /\ Ordered(bracketIn.context.thresholds)
    /\ bracketIn.promptCount = bracketIn.context.thresholds.critical
    /\ ~bracketIn.context.brackets.depleted.enabled
    /\ bracketOut.name = "CRITICAL"
    /\ bracketOut.rules = <<>>
    /\ bracketOut.threshold = bracketIn.context.thresholds.critical


\* the urgency order FRESH < MODERATE < DEPLETED < CRITICAL
Urgency(name) ==
    CASE name = "FRESH" -> 0
      [] name = "MODERATE" -> 1
      [] name = "DEPLETED" -> 2
      [] OTHER -> 3

\* C11: for any thresholds, ordered or not, and any prompt counts c1 <= c2,
\* the level getBracket names for c1 is not more urgent than the one it
\* names for c2.
C11_Monotonic ==
    bracketOut # NoBracket =>
        \A c1 \in 0..bracketIn.promptCount :
            Urgency(getBracket(c1, bracketIn.context).name) <= Urgency(bracketOut.name)

\* thresholds out of order, a lower count that is FRESH and a higher one
\* that is CRITICAL
C11_Witness ==
    /\ bracketOut # NoBracket
    /\ bracketIn.context.thresholds.moderate > bracketIn.context.thresholds.critical
    /\ bracketOut.name = "CRITICAL"
    /\ \E c1 \in 0..bracketIn.promptCount :
           getBracket(c1, bracketIn.context).name = "FRESH"

\* C12: for every choice of rules and enabled flags, a prompt count at or
\* above critical gets the same rules as any prompt count from depleted up
\* to (not including) critical.
C12_CriticalReusesDepleted ==
    (bracketOut # NoBracket
       /\ bracketIn.promptCount >= bracketIn.context.thresholds.critical) =>
        \A c2 \in 0..MaxCount :
            (bracketIn.context.thresholds.depleted <= c2
               /\ c2 < bracketIn.context.thresholds.critical) =>
                getBracket(c2, bracketIn.context).rules = bracketOut.rules

\* a critical count and a depleted count exist, with the depleted bracket
\* disabled: both get no rules
C12_Witness ==
    /\ bracketOut # NoBracket
    /\ bracketIn.promptCount >= bracketIn.context.thresholds.critical
    /\ bracketOut.name = "CRITICAL"
    /\ ~bracketIn.context.brackets.depleted.enabled
    /\ bracketOut.rules = <<>>
    /\ \E c2 \in 0..MaxCount :
           /\ bracketIn.context.thresholds.depleted <= c2
           /\ c2 < bracketIn.context.thresholds.critical
           /\ getBracket(c2, bracketIn.context).name = "DEPLETED"

-----------------------------------------------------------------------------
(* getBracket under the default thresholds of the context file *)

DefaultThresholds == [moderate |-> 15, depleted |-> 35, critical |-> 50]

InitBracketDefault ==
    /\ bracketIn \in [promptCount : 0..MaxDefaultCount,
                      context : [thresholds : {DefaultThresholds}, brackets : Brackets]]
    /\ bracketOut = NoBracket
    /\ messages = <<>>
    /\ trimConfig = [enabled |-> TRUE, mode |-> "moderate", preserveLastN |-> 1]
    /\ clock = 0
    /\ SessionInitDefault
    /\ StatsInitDefault
    /\ MatchInitDefault

\* a further turn of a long session
CountPromptDefault ==
    /\ bracketIn.promptCount < MaxDefaultCount
    /\ bracketIn' = [bracketIn EXCEPT !.promptCount = @ + 1]
    /\ bracketOut' = NoBracket
    /\ UNCHANGED <<trimVars, sessionVars, statsVars, matchVars>>

NextBracketDefault == GetBracket \/ CountPromptDefault

SpecBracketDefault == InitBracketDefault /\ [][NextBracketDefault]_vars

\* the level the design document's table gives a prompt count
DocumentedLevel(c) ==
    IF c <= 15 THEN "FRESH"
    ELSE IF c <= 35 THEN "MODERATE"
    ELSE IF c <= 50 THEN "DEPLETED"
    ELSE "CRITICAL"

\* C13 (as claimed): with the default thresholds, prompt counts 1 to 15 are
\* FRESH, 16 to 35 MODERATE, 36 to 50 DEPLETED and 51 and above CRITICAL.
C13_DocumentedDefaultRanges ==
    (bracketOut # NoBracket /\ bracketIn.promptCount >= 1) =>
        bracketOut.name = DocumentedLevel(bracketIn.promptCount)

-----------------------------------------------------------------------------
(* The turns of one session whose file carries overrides, for manifests of *)
(* every shape and both matcher modules                                     *)

MatchPrompts == {"", "run TEST now *Dev", "latest a.ts", "use git"}

Domain(state, alwaysOn, recall, exclude, paths) ==
    [state |-> state, alwaysOn |-> alwaysOn, recall |-> recall,
     exclude |-> exclude, paths |-> paths, file |-> "rules.md"]

TestingDomains ==
    { Domain(state, shape.alwaysOn, shape.recall, shape.exclude, shape.paths) :
        state \in {"active", "inactive"},
        shape \in { [alwaysOn |-> FALSE, recall |-> <<"Test">>,
                     exclude |-> <<"git">>, paths |-> <<>>],
                    [alwaysOn |-> FALSE, recall |-> <<"run">>,
                     exclude |-> <<>>, paths |-> <<"*.ts">>],
                    [alwaysOn |-> TRUE, recall |-> <<>>,
                     exclude |-> <<"test">>, paths |-> <<>>] } }

GitDomains ==
    { Domain("active", FALSE, <<"git", "latest">>, <<>>, <<>>),
      Domain("inactive", TRUE, <<>>, <<>>, <<>>) }

GlobalExcludes == { <<>>, <<"test">>, <<" ", "NOW">> }

Manifests ==
    { [DefaultManifest EXCEPT !.devmode = devmode,
                              !.globalExclude = globalExclude,
                              !.domains = domains] :
        devmode \in BOOLEAN,
        globalExclude \in GlobalExcludes,
        domains \in { [name \in {"testing"} |-> testing] :
                          testing \in TestingDomains }
                    \cup { [name \in {"testing", "git"} |->
                               IF name = "testing" THEN pair[1] ELSE pair[2]] :
                             pair \in TestingDomains \X GitDomains } }

\* the overrides a session file may carry; "ghost" names no domain
Overrides ==
    { NoOverrides,
      [devmode |-> JBool(TRUE),
       domainStates |-> [name \in {"testing"} |-> JBool(FALSE)]],
      [devmode |-> JBool(FALSE),
       domainStates |-> [name \in {"testing"} |-> JBool(TRUE)]],
      [devmode |-> JNull,
       domainStates |-> [name \in {"testing"} |-> JNull]],
      [devmode |-> JNull,
       domainStates |-> [name \in {"testing", "ghost"} |->
                            JBool(name = "ghost")]],
      [devmode |-> JBool(TRUE),
       domainStates |-> [name \in {"git"} |-> JBool(FALSE)]],
      [devmode |-> JNull,
       domainStates |-> [name \in {"git"} |-> JBool(TRUE)]] }

InitMatch ==
    /\ \E matcher \in Matchers, manifest \in Manifests :
           heap = HeapOf(matcher, manifest)
    /\ lastMatch = [s \in SessionIds |-> NoMatch]
    /\ carlyConfig = PlainConfig
    /\ loadedRules = NoRules
    /\ activeSessionID = NoActiveSession
    /\ \E overrides \in Overrides :
           files = [s \in SessionIds |->
                      IF s = "s1"
                      THEN JsonFile(SessionToJson(
                               [createSession(s, 0) EXCEPT !.overrides = overrides]))
                      ELSE Absent]
    /\ sessions = [s \in SessionIds |-> NotLoaded]
    /\ clock = 1
    /\ statsFile = Absent
    /\ messages = <<>>
    /\ trimConfig = [enabled |-> TRUE, mode |-> "moderate", preserveLastN |-> 1]
    /\ BracketInitDefault

\* the host calls system.transform for a turn before it takes the next one
NextMatch ==
    \/ \E p \in MatchPrompts :
           /\ lastMatch["s1"] = NoMatch
           /\ ChatMessage("s1", p)
    \/ SystemTransform("s1")

SpecMatch == InitMatch /\ [][NextMatch]_vars

-----------------------------------------------------------------------------
(* Claims on the session overrides and the global exclusions *)

\* the objects of the manifest returned are none of the base manifest's
SharesNothing(h) ==
    "result" \in DOMAIN h.manifest =>
        LET map == h.domainMap[h.manifest["result"].domains]
        IN  /\ h.manifest["result"].domains # "base"
            /\ \A name \in DOMAIN map : map[name] # "base"

\* C18: applySessionOverrides never mutates its inputs: in every step the
\* base manifest is after the step what it was before, every domain's state
\* and the devmode flag included, the overrides of a session the plugin holds
\* are unchanged, and the manifest returned shares no object with the base,
\* so that writing to it later cannot reach the base
C18_InputsNotMutated ==
    [][/\ Deref(heap', "base") = Deref(heap, "base")
       /\ SharesNothing(heap')
       /\ \A s \in SessionIds :
              sessions[s] # NotLoaded /\ sessions'[s] # NotLoaded
                  => sessions'[s].overrides = sessions[s].overrides]_vars

\* C18 witness: a manifest was returned that differs from the base in the
\* devmode flag and in the state of a domain
C18_Witness ==
    /\ "result" \in DOMAIN heap.manifest
    /\ Deref(heap, "result").devmode # Deref(heap, "base").devmode
    /\ \E name \in DOMAIN Deref(heap, "base").domains :
           Deref(heap, "result").domains[name].state
               # Deref(heap, "base").domains[name].state

\* the manifest the layering of overrides over base describes
Layered(base, overrides) ==
    LET states == overrides.domainStates
        StateOf(name) ==
            IF name \in DOMAIN states /\ states[name] = JBool(TRUE) THEN "active"
            ELSE IF name \in DOMAIN states /\ states[name] = JBool(FALSE)
                 THEN "inactive"
            ELSE base.domains[name].state
    IN  [version |-> base.version,
         devmode |-> IF overrides.devmode = JNull THEN base.devmode
                     ELSE overrides.devmode.v,
         globalExclude |-> base.globalExclude,
         domains |-> [name \in DOMAIN base.domains |->
                        [state |-> StateOf(name),
                         alwaysOn |-> base.domains[name].alwaysOn,
                         recall |-> base.domains[name].recall,
                         exclude |-> base.domains[name].exclude,
                         paths |-> base.domains[name].paths,
                         file |-> base.domains[name].file]],
         commands |-> base.commands,
         context |-> base.context]

\* the domains a match result names anywhere
NamedIn(result) ==
    DOMAIN result.matched \cup DOMAIN result.matchedPaths
        \cup DOMAIN result.excluded
        \cup { result.alwaysOn[i] : i \in DOMAIN result.alwaysOn }

\* C19: the manifest applySessionOverrides returned last is the base with
\* the overrides of a session layered over it: a domain is active if its
\* override is true, inactive if it is false, as in the base otherwise;
\* devmode is the override unless that is null; an override for a name that
\* is no domain changes nothing; every other field is the base's.  A domain
\* the session disables is not named in the match result of its turn.
C19_OverrideLayering ==
    /\ "result" \in DOMAIN heap.manifest =>
           \E s \in SessionIds :
               /\ sessions[s] # NotLoaded
               /\ Deref(heap, "result")
                    = Layered(Deref(heap, "base"), sessions[s].overrides)
    /\ \A s \in SessionIds :
           lastMatch[s] # NoMatch =>
               \A name \in DOMAIN sessions[s].overrides.domainStates :
                   sessions[s].overrides.domainStates[name] = JBool(FALSE)
                       => name \notin NamedIn(lastMatch[s].match)

\* C19 witness: after a turn the session has disabled a domain that is active
\* in the base and overrides a name that is no domain, and the manifest
\* returned has the domain inactive
C19_Witness ==
    /\ lastMatch["s1"] # NoMatch
    /\ sessions["s1"] # NotLoaded
    /\ "ghost" \in DOMAIN sessions["s1"].overrides.domainStates
    /\ sessions["s1"].overrides.domainStates["testing"] = JBool(FALSE)
    /\ Deref(heap, "base").domains["testing"].state = "active"
    /\ Deref(heap, "result").domains["testing"].state = "inactive"

\* word stands in text between characters that are no word characters
OccursAsWord(text, word) ==
    \E i \in 1..Len(text) : \E j \in i..Len(text) :
        /\ SubSeq(text, i, j) = word
        /\ i = 1 \/ ~IsWordChar(CharAt(text, i - 1))
        /\ j = Len(text) \/ ~IsWordChar(CharAt(text, j + 1))

\* some keyword of the list, blanks around it and case set aside, matches
\* the prompt
AnyKeywordMatches(prompt, keywords) ==
    \E i \in DOMAIN keywords :
        OccursAsWord(toLowerCase(prompt), StrTrim(toLowerCase(keywords[i])))

\* C20: global suppression: whenever a global-exclude keyword matches the
\* prompt of a turn, the match result of the turn has no matched domain, no
\* domain matched by path, no always-on domain and no per-domain exclusion,
\* however the domains are defined
C20_GlobalSuppression ==
    \A s \in SessionIds :
        /\ lastMatch[s] # NoMatch
        /\ AnyKeywordMatches(lastMatch[s].prompt,
                             Deref(heap, "base").globalExclude)
        => /\ lastMatch[s].match.matched = <<>>
           /\ lastMatch[s].match.matchedPaths = <<>>
           /\ lastMatch[s].match.alwaysOn = <<>>
           /\ lastMatch[s].match.excluded = <<>>

\* C20 witness: a turn was suppressed by a global exclusion although the
\* manifest has an always-on domain that is active; its star-command was
\* still detected
C20_Witness ==
    /\ lastMatch["s1"] # NoMatch
    /\ AnyKeywordMatches(lastMatch["s1"].prompt,
                         Deref(heap, "base").globalExclude)
    /\ lastMatch["s1"].match.globalExcluded # <<>>
    /\ lastMatch["s1"].match.starCommands = <<"dev">>
    /\ lastMatch["s1"].match.alwaysOn = <<>>
    /\ Deref(heap, "result").domains["testing"].state = "active"
    /\ Deref(heap, "result").domains["testing"].alwaysOn

-----------------------------------------------------------------------------
(* Claims on the always-on domains *)

\* the active always-on domains of the manifest the turn was matched against
ActiveAlwaysOn(manifest) ==
    { name \in DOMAIN manifest.domains :
        /\ manifest.domains[name].state = "active"
        /\ manifest.domains[name].alwaysOn }

\* manifest with the keyword lists of the domain name emptied
WithoutKeywords(manifest, name) ==
    [manifest EXCEPT !.domains[name].recall = <<>>,
                     !.domains[name].exclude = <<>>]

-----------------------------------------------------------------------------
(* Claims on the keywords that activate a domain *)

\* the recall keywords of a domain that stand in the prompt as whole words,
\* case and the blanks around a keyword set aside, in configured order
WholeWordKeywords(prompt, keywords) ==
    LET Stands(keyword) ==
            OccursAsWord(toLowerCase(prompt), StrTrim(toLowerCase(keyword)))
    IN  SelectSeq(keywords, Stands)

\* the keywords the match result records for a domain
MatchedOf(result, name) ==
    IF name \in DOMAIN result.matched THEN result.matched[name] ELSE <<>>

\* C23: in a turn without global suppression, for every active domain that
\* is not always-on, not excluded and not activated by a path, the keywords
\* recorded in matched are exactly its recall keywords that stand in the
\* prompt as whole words; a keyword inside a longer word does not activate
C23_RecallBoundaryMatches ==
    \A s \in SessionIds :
        lastMatch[s] # NoMatch /\ lastMatch[s].match.globalExcluded = <<>> =>
            LET manifest == Deref(heap, "result")
                result == lastMatch[s].match
            IN  \A name \in DOMAIN manifest.domains :
                    /\ manifest.domains[name].state = "active"
                    /\ ~manifest.domains[name].alwaysOn
                    /\ name \notin DOMAIN result.excluded
                    /\ name \notin DOMAIN result.matchedPaths
                    => MatchedOf(result, name)
                         = WholeWordKeywords(lastMatch[s].prompt,
                                             manifest.domains[name].recall)

-----------------------------------------------------------------------------
(* matchDomains on its own, for prompts of every shape over a small alphabet *)

MaxPromptLen == 4

StarAlphabet == {"*", "a", "B", "1", " "}

RECURSIVE StringsUpTo(_, _)
StringsUpTo(alphabet, n) ==
    IF n = 0 THEN {""}
    ELSE LET shorter == StringsUpTo(alphabet, n - 1)
         IN  shorter \cup { s \o c : s \in shorter, c \in alphabet }

StarPrompts == StringsUpTo(StarAlphabet, MaxPromptLen)

\* with and without a global exclusion, with and without a domain to match
StarManifests ==
    { [DefaultManifest EXCEPT !.globalExclude = globalExclude,
                              !.domains = domains] :
        globalExclude \in { <<>>, <<"b">> },
        domains \in { <<>>,
                      [name \in {"testing"} |->
                          Domain("active", FALSE, <<"a">>, <<>>, <<>>)] } }

InitStar ==
    /\ \E matcher \in Matchers, manifest \in StarManifests :
           heap = HeapOf(matcher, manifest)
    /\ lastMatch = [s \in SessionIds |-> NoMatch]
    /\ carlyConfig = PlainConfig
    /\ loadedRules = NoRules
    /\ activeSessionID = NoActiveSession
    /\ messages = <<>>
    /\ trimConfig = [enabled |-> TRUE, mode |-> "moderate", preserveLastN |-> 1]
    /\ clock = 0
    /\ SessionInitDefault
    /\ StatsInitDefault
    /\ BracketInitDefault

\* matchDomains(prompt, manifest, []) of the chat.message hook
MatchPrompt(prompt) ==
    /\ lastMatch["s1"] = NoMatch
    /\ lastMatch' = [lastMatch EXCEPT !["s1"] =
                        [prompt |-> prompt,
                         match |-> matchDomains(heap.matcher, prompt,
                                                Deref(heap, "base"), <<>>)]]
    /\ UNCHANGED <<heap, carlyConfig, loadedRules, activeSessionID, trimVars, sessionVars, bracketVars,
                   statsVars, clock>>

NextStar == \E prompt \in StarPrompts : MatchPrompt(prompt)

SpecStar == InitStar /\ [][NextStar]_vars

-----------------------------------------------------------------------------
(* Claims on the command tokens *)

\* the positions of the asterisks that an identifier follows
StarPositions(prompt) ==
    { i \in 1..(Len(prompt) - 1) :
        CharAt(prompt, i) = "*" /\ IsLetter(CharAt(prompt, i + 1)) }

\* the identifier after the asterisk at i: the longest run of word characters
IdentifierAfter(prompt, i) ==
    LET ends == { j \in (i + 1)..Len(prompt) :
                    \A k \in (i + 1)..j : IsWordChar(CharAt(prompt, k)) }
    IN  toLowerCase(SubSeq(prompt, i + 1,
                           CHOOSE j \in ends : \A k \in ends : k <= j))

\* where a command name first follows an asterisk
FirstStar(prompt, name) ==
    SetMin({ i \in StarPositions(prompt) : IdentifierAfter(prompt, i) = name })

\* C22: starCommands holds exactly the lower-cased identifiers that follow an
\* asterisk in the prompt, each once, in order of first occurrence, and it is
\* the list obtained from a manifest without global exclusions and domains
C22_StarCommandsIndependent ==
    \A s \in SessionIds :
        lastMatch[s] # NoMatch =>
            LET prompt == lastMatch[s].prompt
                commands == lastMatch[s].match.starCommands
                bare == [DefaultManifest EXCEPT !.globalExclude = <<>>,
                                                !.domains = <<>>]
            IN  /\ Range(commands)
                     = { IdentifierAfter(prompt, i) : i \in StarPositions(prompt) }
                /\ \A i, j \in DOMAIN commands :
                       i < j => /\ commands[i] # commands[j]
                                /\ FirstStar(prompt, commands[i])
                                     < FirstStar(prompt, commands[j])
                /\ commands
                     = matchDomains(heap.matcher, prompt, bare, <<>>).starCommands

\* a prompt that names one command twice in different case, met by a global
\* exclusion
C22_Witness ==
    /\ lastMatch["s1"] # NoMatch
    /\ lastMatch["s1"].match.globalExcluded # <<>>
    /\ lastMatch["s1"].match.starCommands = <<"b">>
    /\ Cardinality(StarPositions(lastMatch["s1"].prompt)) = 2

-----------------------------------------------------------------------------
(* A turn over a configuration with rule documents, commands and a domain    *)
(* that file paths activate.                                                 *)

LoadPrompts == {"", "test *dev", "edit a.ts", "*constructor", "*Dev *empty *nope"}

\* testing is activated by the keyword test or a TypeScript file, git is
\* always on
LoadManifests ==
    { [DefaultManifest EXCEPT
          !.domains =
              [name \in {"testing", "git"} |->
                  IF name = "testing"
                  THEN [Domain(state, FALSE, <<"test">>, <<>>, <<"*.ts">>)
                           EXCEPT !.file = "testing.md"]
                  ELSE [Domain("active", TRUE, <<>>, <<>>, <<>>)
                           EXCEPT !.file = "git.md"]],
          !.commands = [state |-> commands],
          !.context = [state |-> context]] :
        state \in {"active", "inactive"},
        commands \in {"active", "inactive"},
        context \in {"active", "inactive"} }

\* rule documents of one rule each, a command with a rule and one without,
\* and a rule for the fresh bracket; the rules are of one or of four characters
LoadConfigs ==
    { [files |-> [file \in {"testing.md", "git.md"} |->
                     IF file = "testing.md" THEN <<rules[1]>> ELSE <<rules[2]>>],
       commands |-> [cmdName \in {"dev", "empty"} |->
                        [rules |-> IF cmdName = "dev" THEN <<rules[3]>> ELSE <<>>]],
       context |-> [PlainConfig.context EXCEPT
                       !.brackets = [fresh |-> ContextBracket(TRUE, <<rules[4]>>),
                                     moderate |-> ContextBracket(TRUE, <<>>),
                                     depleted |-> ContextBracket(TRUE, <<>>)]]] :
        rules \in { <<"t", "g", "d", "f">>, <<"test", "gitx", "devx", "lean">> } }

LoadOverrides ==
    { NoOverrides,
      [devmode |-> JNull,
       domainStates |-> [name \in {"testing"} |-> JBool(TRUE)]] }

InitLoad ==
    /\ \E matcher \in Matchers, manifest \in LoadManifests :
           heap = HeapOf(matcher, manifest)
    /\ lastMatch = [s \in SessionIds |-> NoMatch]
    /\ carlyConfig \in LoadConfigs
    /\ loadedRules = NoRules
    /\ activeSessionID = NoActiveSession
    /\ \E overrides \in LoadOverrides :
           files = [s \in SessionIds |->
                      IF s = "s1"
                      THEN JsonFile(SessionToJson(
                               [createSession(s, 0) EXCEPT !.overrides = overrides]))
                      ELSE Absent]
    /\ sessions = [s \in SessionIds |-> NotLoaded]
    /\ clock = 1
    /\ statsFile = Absent
    /\ messages = <<>>
    /\ trimConfig = [enabled |-> TRUE, mode |-> "moderate", preserveLastN |-> 1]
    /\ BracketInitDefault

NextLoad ==
    \/ \E p \in LoadPrompts :
           /\ lastMatch["s1"] = NoMatch
           /\ ChatMessage("s1", p)
    \/ SystemTransform("s1")

SpecLoad == InitLoad /\ [][NextLoad]_vars

-----------------------------------------------------------------------------
(* Claims on the rules loaded for a turn *)

\* C24: the baseline calculateBaseline gives is at least the token estimate
\* of the rules injected in any one turn
C24_BaselineBoundsInjection ==
    loadedRules \notin {NoRules, TypeError} =>
        tokensInjectedThisPrompt(loadedRules) <= baselineTokensPerPrompt

\* C26: a domain that matchDomains activated by a path has its rules among
\* the matched rules that loadRules returns, and is not listed among the
\* available domains
C26_PathActivatedInjected ==
    [][\A s \in SessionIds :
          SystemTransform(s) /\ loadedRules' # TypeError =>
              \A name \in DOMAIN lastMatch[s].match.matchedPaths :
                  LET manifest == Deref(heap', "result")
                      rules == parseDomainFile(carlyConfig,
                                               manifest.domains[name].file)
                  IN  /\ rules # <<>> =>
                             /\ name \in DOMAIN loadedRules'.matched
                             /\ loadedRules'.matched[name] = rules
                      /\ \A i \in DOMAIN loadedRules'.availableDomains :
                             loadedRules'.availableDomains[i].name # name]_vars

\* the command rules the claim describes: of the tokens that have a
\* definition with at least one rule, and none while commands are inactive
DefinedCommands(manifest, cfg, tokens) ==
    LET defined == { cmdName \in Range(tokens) \cap DOMAIN cfg.commands :
                       cfg.commands[cmdName].rules # <<>> }
    IN  IF manifest.commands.state = "active"
        THEN [cmdName \in defined |-> cfg.commands[cmdName].rules]
        ELSE <<>>

\* C29: loadRules completes for every list of command tokens, and the
\* command rules it returns are those of the tokens that have a definition
\* with at least one rule; none while the commands are inactive
C29_UnknownCommandsIgnored ==
    [][\A s \in SessionIds :
          SystemTransform(s) =>
              /\ loadedRules' # TypeError
              /\ loadedRules'.commands
                   = DefinedCommands(Deref(heap', "result"), carlyConfig,
                                     lastMatch[s].match.starCommands)]_vars

-----------------------------------------------------------------------------
(* The paths of a prompt against the glob pattern of a domain *)

MaxGlobLen == 3

GlobPatterns == StringsUpTo({"*", "?", "a", "/"}, MaxGlobLen) \ {""}

\* the words of a prompt that extractPathsFromPrompt takes for paths
GlobPaths ==
    { path \in StringsUpTo({"a", "b", "/"}, MaxGlobLen) : Includes(path, "/") }

\* the one domain of the manifest is activated by pattern alone
InitGlob ==
    /\ \E pattern \in GlobPatterns :
           heap = HeapOf(MatcherBoundary,
                         [DefaultManifest EXCEPT
                             !.domains = [name \in {"testing"} |->
                                 Domain("active", FALSE, <<>>, <<>>, <<pattern>>)]])
    /\ lastMatch = [s \in SessionIds |-> NoMatch]
    /\ carlyConfig = PlainConfig
    /\ loadedRules = NoRules
    /\ activeSessionID = NoActiveSession
    /\ messages = <<>>
    /\ trimConfig = [enabled |-> TRUE, mode |-> "moderate", preserveLastN |-> 1]
    /\ clock = 0
    /\ SessionInitDefault
    /\ StatsInitDefault
    /\ BracketInitDefault

NextGlob == \E path \in GlobPaths : MatchPrompt(path)

SpecGlob == InitGlob /\ [][NextGlob]_vars

-----------------------------------------------------------------------------
(* Claim on the glob patterns *)

\* the reference semantics: "**" stands for any characters, "*" for any
\* characters but the separator, "?" for one character, any other character
\* for itself, and the pattern covers the whole path
RECURSIVE GlobMatches(_, _)
GlobMatches(pattern, path) ==
    LET From(str, k) == SubSeq(str, k, Len(str))
    IN  IF pattern = "" THEN path = ""
        ELSE IF Len(pattern) >= 2 /\ SubSeq(pattern, 1, 2) = "**"
             THEN \E k \in 0..Len(path) :
                      GlobMatches(From(pattern, 3), From(path, k + 1))
        ELSE IF CharAt(pattern, 1) = "*"
             THEN \E k \in 0..Len(path) :
                      /\ ~Includes(SubSeq(path, 1, k), "/")
                      /\ GlobMatches(From(pattern, 2), From(path, k + 1))
        ELSE IF CharAt(pattern, 1) = "?"
             THEN path # "" /\ GlobMatches(From(pattern, 2), From(path, 2))
        ELSE /\ path # ""
             /\ CharAt(path, 1) = CharAt(pattern, 1)
             /\ GlobMatches(From(pattern, 2), From(path, 2))

\* C28: a path is matched by a pattern exactly when the pattern matches the
\* whole path under the reference semantics of "**", "*" and "?"
C28_GlobSemantics ==
    lastMatch["s1"] # NoMatch =>
        LET pattern == Deref(heap, "base").domains["testing"].paths[1]
            path == lastMatch["s1"].prompt
        IN  ("testing" \in DOMAIN lastMatch["s1"].match.matchedPaths)
                <=> GlobMatches(pattern, path)

-----------------------------------------------------------------------------
(* updateSessionActivity on its own, for prompts around the length of a     *)
(* title                                                                    *)

MaxTitleCalls == 4

\* no text, blanks only, a short prompt, prompts of 60 and of 61 characters,
\* and a long one with runs of white space
TitlePrompts ==
    {"", "   ", " fix  the bug ",
     "xxxxxxxxxxxxxxxxxxxxxxxxxxxxxxxxxxxxxxxxxxxxxxxxxxxxxxxxxxxx",
     "xxxxxxxxxxxxxxxxxxxxxxxxxxxxxxxxxxxxxxxxxxxxxxxxxxxxxxxxxxxxx",
     " refactor  the  parser refactor  the  parser refactor  the  parser \tnow "}

InitTitle ==
    /\ sessions = [s \in SessionIds |-> createSession(s, 0)]
    /\ files = [s \in SessionIds |-> Absent]
    /\ clock = 0
    /\ statsFile = Absent
    /\ messages = <<>>
    /\ trimConfig = [enabled |-> TRUE, mode |-> "moderate", preserveLastN |-> 1]
    /\ BracketInitDefault
    /\ MatchInitDefault

\* updateSessionActivity(session, promptText) on the session held
UpdateActivity(sessionId, promptText) ==
    /\ sessions[sessionId].promptCount < MaxTitleCalls
    /\ sessions' = [sessions EXCEPT
                       ![sessionId] = updateSessionActivity(@, promptText, clock)]
    /\ UNCHANGED <<files, clock, trimVars, bracketVars, statsVars, matchVars>>

NextTitle == \E s \in SessionIds, p \in TitlePrompts : UpdateActivity(s, p)

SpecTitle == InitTitle /\ [][NextTitle]_vars

-----------------------------------------------------------------------------
(* Claim on the title of a session *)

\* C30: under any sequence of updateSessionActivity calls a title is at most
\* 60 characters long, is assigned only by a call that brings the prompt
\* count to at most 3, and is not changed once it is set
C30_TitleSetOnce ==
    [][\A s \in SessionIds :
          LET before == sessions[s].title
              after == sessions'[s].title
          IN  /\ after # <<>> => Len(after[1]) <= 60
              /\ before # <<>> => after = before
              /\ after # before => sessions'[s].promptCount <= 3]_vars

\* a prompt longer than a title was cut to 57 characters and the dots, and
\* the calls up to the fourth left the title
C30_Witness ==
    \E s \in SessionIds :
        /\ sessions[s].promptCount = 4
        /\ sessions[s].title # <<>>
        /\ Len(sessions[s].title[1]) = 60
        /\ SubSeq(sessions[s].title[1], 58, 60) = "..."
        /\ SubSeq(sessions[s].title[1], 1, 21) = "refactor the parser r"

-----------------------------------------------------------------------------
(* trimMessageHistory over transcripts with malformed parts.  A malformed    *)
(* part carries the set of its missing fields: the state of a tool part,     *)
(* the output or the time of its state, the text of a text part.  Reading a  *)
(* property of a missing object, or the length of a missing output, raises.  *)

Without(part, fields) ==
    [f \in DOMAIN part \cup {"missing"} |->
        IF f = "missing" THEN fields ELSE part[f]]

Missing(part, field) == "missing" \in DOMAIN part /\ field \in part.missing

\* TrimContext.constructor reads toolPart.state.status of every tool part
ConstructorRaises(msgs) ==
    \E p \in PartPositions(msgs) :
        LET part == msgs[p[1]].parts[p[2]]
        IN  part.type = "tool" /\ Missing(part, "state")

\* the loop body at a part of record mi: textPart.text.includes of a text
\* part; for a tool part before the tail, scoreToolPart reads
\* completed.time.compacted and then the length of completed.output
LoopRaises(msgs, config, mi, part) ==
    IF part.type = "text" THEN Missing(part, "text")
    ELSE /\ part.type = "tool"
         /\ ~(mi >= protectedStart(msgs, config))
         /\ part.status = "completed"
         /\ \/ Missing(part, "time")
            \/ part.compacted = 0 /\ Missing(part, "output")

\* trimMessageHistory(messages, config) for any transcript: whether it
\* raised, and the transcript as it left it; the parts before the one that
\* raised have been through the loop body
trimMessageHistoryRaising(msgs, config, now) ==
    LET raising == { p \in PartPositions(msgs) :
                       LoopRaises(msgs, config, p[1] - 1, msgs[p[1]].parts[p[2]]) }
        Before(p, q) == p[1] < q[1] \/ (p[1] = q[1] /\ p[2] < q[2])
        Reached(p) == \A q \in raising : Before(p, q)
    IN  IF ~config.enabled THEN [raised |-> FALSE, messages |-> msgs]
        ELSE IF ConstructorRaises(msgs) THEN [raised |-> TRUE, messages |-> msgs]
        ELSE [raised |-> raising # {},
              messages |->
                  [i \in 1..Len(msgs) |->
                      [msgs[i] EXCEPT !.parts =
                          [j \in 1..Len(msgs[i].parts) |->
                              IF Reached(<<i, j>>)
                              THEN TrimPart(msgs, config, now, i - 1,
                                            msgs[i].parts[j])
                              ELSE msgs[i].parts[j]]]]]

\* records with a text part without text, a tool part without state, and
\* completed reads without output and without time, beside a well-formed one
MalformedPool ==
    { Message("assistant",
              <<TextPart("<carly-rules>be brief</carly-rules> go on"),
                ReadFile("a.py", "completed", 2004, 0)>>),
      Message("user",
              <<Without(TextPart(""), {"text"}),
                TextPart("x <carly-rules>y</carly-rules>")>>),
      Message("assistant",
              <<Without(ToolPart("read", "", "", "", "", "", NoOutput, 0), {"state"})>>),
      Message("assistant",
              <<Without(ReadFile("a.py", "completed", 0, 0), {"output"})>>),
      Message("assistant",
              <<Without(ReadFile("b.py", "completed", 2004, 0), {"time"})>>) }

\* the messages.transform hook without an active session: nothing catches
\* what trimMessageHistory raises
TrimAny ==
    /\ messages' = trimMessageHistoryRaising(messages, trimConfig, clock).messages
    /\ UNCHANGED <<trimConfig, clock, files, sessions, bracketVars, statsVars, matchVars>>

NextMalformed ==
    \/ \E m \in MalformedPool : AppendMessage(m)
    \/ TrimAny

SpecMalformed == InitTrim /\ [][NextMalformed]_vars

-----------------------------------------------------------------------------
(* Claim on malformed transcript parts *)

\* C27: for every transcript, a call of trimMessageHistory returns normally,
\* leaves every malformed part as it is, and puts every well-formed part
\* through the loop body
C27_MalformedNeverRaises ==
    LET result == trimMessageHistoryRaising(messages, trimConfig, clock)
    IN  /\ ~result.raised
        /\ \A p \in PartPositions(messages) :
               LET part == PartAt(messages, p)
               IN  PartAt(result.messages, p)
                     = IF "missing" \in DOMAIN part \/ ~trimConfig.enabled
                       THEN part
                       ELSE TrimPart(messages, trimConfig, clock, p[1] - 1, part)

-----------------------------------------------------------------------------
(* The turns of one session, sweeps and restarts, without clear_stats and   *)
(* without damage from outside                                              *)

NextLedger ==
    \/ \E p \in TurnPrompts : ChatMessage("s1", p)
    \/ SystemTransform("s1")
    \/ TrimForSession("s1")
    \/ SessionCreated
    \/ Restart
    \/ Tick

SpecLedger == InitStats /\ [][NextLedger]_vars

-----------------------------------------------------------------------------
(* Claim on the savings counters of a session *)

LedgerCounters ==
    {"tokensSkippedBySelection", "tokensInjected", "tokensTrimmedFromHistory",
     "tokensTrimmedCarlyBlocks", "promptsProcessed"}

\* C25: the five savings counters of a session the plugin holds are never
\* negative and no step of a turn, a sweep or a restart makes one smaller
C25_LedgerOnlyGrows ==
    [][\A s \in SessionIds :
          sessions[s] # NotLoaded /\ sessions'[s] # NotLoaded =>
              \A counter \in LedgerCounters :
                  /\ sessions[s].tokenStats[counter] >= 0
                  /\ sessions'[s].tokenStats[counter]
                       >= sessions[s].tokenStats[counter]]_vars

-----------------------------------------------------------------------------
(* Claims on the order of compaction, stated on the transcript a call made  *)
(* now would leave                                                          *)

\* the tool parts a call with config would compact
CompactedBy(config) ==
    { p \in PartPositions(messages) :
        /\ PartAt(messages, p).type = "tool"
        /\ PartAt(trimMessageHistory(messages, config, clock).messages, p)
             # PartAt(messages, p) }

\* C37: of two completed, uncompacted tool parts before the protected tail
\* with the same tool, file path and output size, a call that compacts the
\* one in the later record compacts the one in the earlier record
C37_AgeMonotone ==
    \A p, q \in PartPositions(messages) :
        (/\ p[1] < q[1]
         /\ ~InTail(p) /\ ~InTail(q)
         /\ PartAt(messages, p).type = "tool" /\ PartAt(messages, q).type = "tool"
         /\ PartAt(messages, p).status = "completed"
         /\ PartAt(messages, q).status = "completed"
         /\ PartAt(messages, p).compacted = 0 /\ PartAt(messages, q).compacted = 0
         /\ PartAt(messages, p).tool = PartAt(messages, q).tool
         /\ PartAt(messages, p).filePath = PartAt(messages, q).filePath
         /\ PartAt(messages, p).output.chars = PartAt(messages, q).output.chars
         /\ q \in CompactedBy(trimConfig))
        => p \in CompactedBy(trimConfig)

\* two reads of one file with the same summary, in different records before
\* the tail, stand compacted by the same call
C37_Witness ==
    /\ Settled
    /\ \E p, q \in PartPositions(messages) :
          /\ p[1] < q[1]
          /\ ~InTail(p) /\ ~InTail(q)
          /\ IsSummary(PartAt(messages, p)) /\ IsSummary(PartAt(messages, q))
          /\ PartAt(messages, p).tool = "read"
          /\ PartAt(messages, p) = PartAt(messages, q)

\* C38: for the same transcript and preserveLastN, what conservative mode
\* compacts moderate mode compacts, and what moderate mode compacts
\* aggressive mode compacts
C38_ModesNested ==
    LET In(mode) == CompactedBy([trimConfig EXCEPT !.mode = mode])
    IN  /\ In("conservative") \subseteq In("moderate")
        /\ In("moderate") \subseteq In("aggressive")

\* a transcript of which conservative mode compacts a part, moderate mode a
\* further one and aggressive mode yet another
C38_Witness ==
    LET In(mode) == CompactedBy([trimConfig EXCEPT !.mode = mode])
    IN  /\ trimConfig.enabled
        /\ In("conservative") # {}
        /\ In("conservative") # In("moderate")
        /\ In("moderate") # In("aggressive")

\* what the call adds to the TrimStats for the part at p
StatsAt(p) ==
    IF trimConfig.enabled
    THEN PartStats(messages, trimConfig, p[1] - 1, PartAt(messages, p))
    ELSE ZeroStats

\* C39: a call changes a text part and counts it in carlyBlocksStripped and
\* carlyTokensSaved only when the part holds a complete block; a part with a
\* start marker and no end marker after it is left as it is and not counted
C39_StripStatsExact ==
    \A p \in PartPositions(messages) :
        PartAt(messages, p).type = "text" /\ ~HasBlock(PartAt(messages, p).text) =>
            /\ PartAt(AfterTrim, p) = PartAt(messages, p)
            /\ StatsAt(p) = ZeroStats

-----------------------------------------------------------------------------
(* matchDomains over domains whose exclusions, paths and recall keywords    *)
(* meet in one prompt                                                       *)

PartitionPrompts ==
    {"", "run a.ts now", "run now", "see a.ts", "running", "never run a.ts"}

\* testing in every state, always on or not, with and without an exclusion
\* and a path pattern; git with a path pattern and the same recall keyword
PartitionManifests ==
    { [DefaultManifest EXCEPT
          !.globalExclude = globalExclude,
          !.domains =
              [name \in {"testing", "git"} |->
                  IF name = "testing"
                  THEN Domain(state, alwaysOn, <<"run">>, exclude, paths)
                  ELSE Domain("active", FALSE, <<"run">>, <<>>, <<"*.ts">>)]] :
        globalExclude \in { <<>>, <<"never">> },
        state \in {"active", "inactive"},
        alwaysOn \in BOOLEAN,
        exclude \in { <<>>, <<"now">> },
        paths \in { <<>>, <<"*.ts">> } }

InitPartition ==
    /\ \E matcher \in Matchers, manifest \in PartitionManifests :
           heap = HeapOf(matcher, manifest)
    /\ lastMatch = [s \in SessionIds |-> NoMatch]
    /\ carlyConfig = PlainConfig
    /\ loadedRules = NoRules
    /\ activeSessionID = NoActiveSession
    /\ messages = <<>>
    /\ trimConfig = [enabled |-> TRUE, mode |-> "moderate", preserveLastN |-> 1]
    /\ clock = 0
    /\ SessionInitDefault
    /\ StatsInitDefault
    /\ BracketInitDefault

NextPartition == \E prompt \in PartitionPrompts : MatchPrompt(prompt)

SpecPartition == InitPartition /\ [][NextPartition]_vars

-----------------------------------------------------------------------------
(* Claim on the parts of a match result *)

\* C36: a domain is named in at most one of alwaysOn, excluded, matchedPaths
\* and matched, and at most once in alwaysOn; an inactive domain is named in
\* none; a domain with an exclude keyword in the prompt is named neither in
\* matchedPaths nor in matched
C36_MatchPartition ==
    \A s \in SessionIds :
        lastMatch[s] # NoMatch =>
            LET manifest == Deref(heap, "base")
                result == lastMatch[s].match
                parts == << Range(result.alwaysOn), DOMAIN result.excluded,
                            DOMAIN result.matchedPaths, DOMAIN result.matched >>
                named == UNION { parts[i] : i \in 1..4 }
            IN  /\ \A i, j \in 1..4 : i # j => parts[i] \cap parts[j] = {}
                /\ \A i, j \in DOMAIN result.alwaysOn :
                       i # j => result.alwaysOn[i] # result.alwaysOn[j]
                /\ named \subseteq DOMAIN manifest.domains
                /\ \A name \in DOMAIN manifest.domains :
                       /\ manifest.domains[name].state = "inactive" =>
                              name \notin named
                       /\ findMatchingKeywords(heap.matcher, lastMatch[s].prompt,
                                               manifest.domains[name].exclude) # <<>>
                            => name \notin parts[3] \cup parts[4]

\* testing is excluded by a prompt that holds its recall keyword and a file
\* of its path pattern, while the same file activates git
C36_Witness ==
    /\ lastMatch["s1"] # NoMatch
    /\ lastMatch["s1"].prompt = "run a.ts now"
    /\ Deref(heap, "base").domains["testing"].paths = <<"*.ts">>
    /\ "testing" \in DOMAIN lastMatch["s1"].match.excluded
    /\ "git" \in DOMAIN lastMatch["s1"].match.matchedPaths

-----------------------------------------------------------------------------
(* Claim on the first turn after a restart *)

\* the number the session file of s holds for a field, or for a counter of
\* its tokenStats
PersistedCount(s) == files[s].value.v.promptCount.v

PersistedStat(s, counter) == files[s].value.v.tokenStats.v[counter].v

\* the file of s holds a session record as saveSession writes it
HoldsRecord(s) ==
    files[s].kind = "json" /\ SessionConfigValid(files[s].value)

\* C31: the turn that loads a session the plugin does not hold, from a file
\* that holds its record, leaves the prompt counter at the persisted value plus one
\* and every savings counter at the persisted value or above
C31_LedgerSurvivesReload ==
    [][\A s \in SessionIds :
          (/\ sessions[s] = NotLoaded
           /\ sessions'[s] # NotLoaded
           /\ HoldsRecord(s))
          => /\ sessions'[s].promptCount = PersistedCount(s) + 1
             /\ \A counter \in LedgerCounters :
                    sessions'[s].tokenStats[counter] >= PersistedStat(s, counter)]_vars

\* the plugin has started again and holds no session, while the file of s1
\* records two turns and an injection
C31_Witness ==
    /\ sessions["s1"] = NotLoaded
    /\ HoldsRecord("s1")
    /\ PersistedCount("s1") = 2
    /\ PersistedStat("s1", "promptsProcessed") = 1
    /\ PersistedStat("s1", "tokensInjected") > 0

-----------------------------------------------------------------------------
(* Claim on the selection counters of a session *)

\* C35: the tokens a session skipped by selection and the tokens it injected
\* add up to its baseline for every prompt processed, or more
C35_SelectionIdentity ==
    \A s \in SessionIds :
        sessions[s] # NotLoaded =>
            LET tokenStats == sessions[s].tokenStats
            IN  tokenStats.tokensSkippedBySelection + tokenStats.tokensInjected
                    >= tokenStats.baselineTokensPerPrompt * tokenStats.promptsProcessed

\* s1 has a baseline above zero and a processed prompt that injected less
\* than the baseline
C35_Witness ==
    /\ sessions["s1"] # NotLoaded
    /\ sessions["s1"].tokenStats.baselineTokensPerPrompt > 0
    /\ sessions["s1"].tokenStats.promptsProcessed > 0
    /\ sessions["s1"].tokenStats.tokensInjected > 0
    /\ sessions["s1"].tokenStats.tokensSkippedBySelection > 0

-----------------------------------------------------------------------------
(* Claim on the injections of a session *)

\* C33: a session held never has more prompts processed than prompts
\* counted, and a step that adds to its prompts processed starts with a match
\* cached by a chat.message of that session and ends without one
C33_OneInjectionPerTurn ==
    /\ [](\A s \in SessionIds :
            sessions[s] # NotLoaded =>
                sessions[s].tokenStats.promptsProcessed <= sessions[s].promptCount)
    /\ [][\A s \in SessionIds :
            (/\ sessions[s] # NotLoaded
             /\ sessions'[s] # NotLoaded
             /\ sessions'[s].tokenStats.promptsProcessed
                    > sessions[s].tokenStats.promptsProcessed)
            => /\ lastMatch[s] # NoMatch
               /\ lastMatch'[s] = NoMatch]_vars

\* s1 after two turns and the injection of each: no match is cached, so no
\* third injection can follow before a further turn
C33_Witness ==
    /\ sessions["s1"] # NotLoaded
    /\ sessions["s1"].promptCount = 2
    /\ sessions["s1"].tokenStats.promptsProcessed = 2
    /\ lastMatch["s1"] = NoMatch

-----------------------------------------------------------------------------
(* The other updateCumulativeStats of the repository: its summaries carry    *)
(* four fields, its totals are sums of tokensSaved, and the update adds the  *)
(* counters of the session to the totals it loaded.                          *)

MaxEarned == 2    \* most tokens a counter of the session gains

\* calculateCumulativeStats of that file: both sums are sums of tokensSaved
calculateCumulativeStatsPart008(summaries) ==
    [f \in CumulativeFields |->
        IF f \in {"tokensSkippedBySelection", "totalTokensSaved"}
        THEN SumField(summaries, "tokensSaved", 1)
        ELSE 0]

\* the summary its loadCumulativeStats makes of a session file
SummaryOfSessionFilePart008(j) ==
    [sessionId |-> j.v.id.v,
     date |-> Field(j.v, "started"),
     tokensSaved |-> calculateTokensSaved(TokenStatsSchema(j.v.tokenStats)),
     promptsProcessed |-> OrDefault(Field(j.v, "promptCount"), JNum(0)).v]

RECURSIVE MergeSessionFilesPart008(_, _, _)
MergeSessionFilesPart008(summaries, fs, i) ==
    IF i > Len(SessionFileOrder) THEN summaries
    ELSE LET j == readJsonFileSafe(fs[SessionFileOrder[i]])
             merge == /\ j.t = "obj"
                      /\ Truthy(Field(j.v, "id"))
                      /\ Truthy(Field(j.v, "tokenStats"))
                      /\ FindIndex(summaries, j.v.id.v) = 0
         IN  MergeSessionFilesPart008(
                 IF merge THEN Append(summaries, SummaryOfSessionFilePart008(j))
                 ELSE summaries,
                 fs, i + 1)

\* loadCumulativeStats of that file: the totals are computed from the merged
\* summaries, the totals stored in stats.json are not used
loadCumulativeStatsPart008(sf, fs) ==
    LET raw == readJsonFileSafe(sf)
        statsJson == IF Truthy(raw) /\ CumulativeStatsValid(raw)
                     THEN CumulativeStatsSchema(raw)
                     ELSE EmptyStats
        merged == MergeSessionFilesPart008(
                      MapOfList(statsJson.sessions, Len(statsJson.sessions)), fs, 1)
    IN  [version |-> statsJson.version,
         cumulative |-> calculateCumulativeStatsPart008(merged),
         sessions |-> merged]

\* updateCumulativeStats of that file: the counters of the session are added
\* to the totals loaded, then the summary of the session is set
updateCumulativeStatsPart008(sf, fs, session) ==
    LET stats == loadCumulativeStatsPart008(sf, fs)
        tokenStats == session.tokenStats
        added == [stats.cumulative EXCEPT
                    !.tokensSkippedBySelection = @ + tokenStats.tokensSkippedBySelection,
                    !.tokensInjected = @ + tokenStats.tokensInjected,
                    !.tokensTrimmedFromHistory = @ + tokenStats.tokensTrimmedFromHistory,
                    !.tokensTrimmedCarlyBlocks = @ + tokenStats.tokensTrimmedCarlyBlocks]
        cumulative == [added EXCEPT
                         !.totalTokensSaved = added.tokensSkippedBySelection
                                                + added.tokensTrimmedFromHistory
                                                + added.tokensTrimmedCarlyBlocks]
        sessionSummary == [sessionId |-> session.id,
                           date |-> session.started,
                           tokensSaved |-> calculateTokensSaved(tokenStats),
                           promptsProcessed |-> tokenStats.promptsProcessed]
    IN  [version |-> stats.version,
         cumulative |-> cumulative,
         sessions |-> MapSet(stats.sessions, sessionSummary)]

\* JSON.stringify of stats whose summaries carry the fields they were given
saveCumulativeStatsPart008(stats) ==
    JsonFile(
        JObj([version |-> JNum(stats.version),
              cumulative |-> JObj([f \in CumulativeFields |-> JNum(stats.cumulative[f])]),
              sessions |-> JArr([i \in DOMAIN stats.sessions |->
                  JObj([f \in DOMAIN stats.sessions[i] |->
                      IF f = "sessionId" THEN JStr(stats.sessions[i].sessionId)
                      ELSE IF f = "date" THEN stats.sessions[i].date
                      ELSE JNum(stats.sessions[i][f])])])]))

RollupCounters ==
    {"tokensSkippedBySelection", "tokensInjected", "tokensTrimmedFromHistory"}

\* one session held and saved, nothing counted, no stats.json
InitRollup ==
    /\ sessions = [s \in SessionIds |->
                     IF s = "s1" THEN createSession("s1", 1) ELSE NotLoaded]
    /\ files = saveSession([s \in SessionIds |-> Absent], createSession("s1", 1))
    /\ clock = 1
    /\ statsFile = Absent
    /\ messages = <<>>
    /\ trimConfig = [enabled |-> TRUE, mode |-> "moderate", preserveLastN |-> 1]
    /\ BracketInitDefault
    /\ MatchInitPlain

\* a hook adds to a counter of the session and saves the session
Earn(counter) ==
    /\ sessions["s1"].tokenStats[counter] < MaxEarned
    /\ LET updated == [sessions["s1"] EXCEPT !.tokenStats[counter] = @ + 1]
       IN  /\ sessions' = [sessions EXCEPT !["s1"] = updated]
           /\ files' = saveSession(files, updated)
    /\ UNCHANGED <<clock, statsFile, trimVars, bracketVars, matchVars>>

\* a hook calls updateCumulativeStats for the session
Rollup ==
    /\ statsFile' = saveCumulativeStatsPart008(
                        updateCumulativeStatsPart008(statsFile, files, sessions["s1"]))
    /\ UNCHANGED <<files, sessions, clock, trimVars, bracketVars, matchVars>>

NextRollup ==
    \/ \E counter \in RollupCounters : Earn(counter)
    \/ Rollup

SpecRollup == InitRollup /\ [][NextRollup]_vars

\* C34: a second call of updateCumulativeStats for the session, its counters
\* unchanged, returns the totals and the session list of the first call
C34_RollupIdempotent ==
    LET once == updateCumulativeStatsPart008(statsFile, files, sessions["s1"])
        twice == updateCumulativeStatsPart008(
                     saveCumulativeStatsPart008(once), files, sessions["s1"])
    IN  /\ twice.cumulative = once.cumulative
        /\ twice.sessions = once.sessions

-----------------------------------------------------------------------------
(* Turns of two sessions in one process.  The messages.transform hook has no *)
(* session in its input: the host hands it the transcript of the session     *)
(* whose turn it is, here owner, and the hook takes state.activeSessionID    *)
(* for the session.                                                          *)

\* the messages.transform hook called with the transcript of owner, a
\* session with a turn in this process
MessagesTransform(owner) ==
    /\ sessions[owner] # NotLoaded
    /\ TrimForSession(activeSessionID)

NextCredit ==
    \/ \E s \in SessionIds, p \in TurnPrompts : ChatMessage(s, p)
    \/ \E s \in SessionIds : SystemTransform(s)
    \/ \E owner \in SessionIds : MessagesTransform(owner)

SpecCredit == InitStats /\ [][NextCredit]_vars

\* C32: the messages.transform hook called with the transcript of a session
\* leaves every other session as it was
C32_TrimCreditedToOwner ==
    [][\A owner \in SessionIds :
          MessagesTransform(owner) =>
              \A s \in SessionIds \ {owner} : sessions'[s] = sessions[s]]_vars

====
